---- MODULE Spec2Model ----
(***************************************************************************)
(* A model of the PPTX decoding pipeline: the two orchestrators            *)
(* (PPTXParser.parse and PPTXAdapter.parsePPTX) with the worker that       *)
(* drives PPTXParser, ThemeParser.parseTheme, the two ThemeCache classes,  *)
(* the decoding of percentages and colours, the EMU and pixel conversions, *)
(* the slide elements of SlideParser and ElementMapper, the ids of a       *)
(* decode, and the validation of the messages of the UI. Each part has its *)
(* own specification over its own variables.                               *)
(*                                                                         *)
(* An XML part is modelled by what the decoder sees of it: whether the     *)
(* XML library throws on it ("malformed") and, when it decodes, which keys *)
(* the decoded tree carries.                                               *)
(***************************************************************************)
EXTENDS Integers, Sequences, FiniteSets, TLC

VARIABLES
    (* ---- the package under decode (fixed during one decode) ---- *)
    impl,             \* which orchestrator runs: "PPTXParser" or "PPTXAdapter"
    zipOk,            \* JSZip.loadAsync succeeds on the byte buffer
    presentationPart, \* ppt/presentation.xml: "missing", "malformed", "noroot", "ok"
    sldIds,           \* the p:sldId entries of p:sldIdLst in presentation.xml
    slideFiles,       \* ppt/slides/slideN.xml entries in ZIP enumeration order
    masterFiles,      \* ppt/slideMasters/slideMasterN.xml entries, "ok" or "bad"
    themeFiles,       \* ppt/theme/themeN.xml entries, "ok" or "bad"
    mediaFiles,       \* ppt/media/* entries, "ok" or "bad" (extraction fails)
    (* ---- the decode in flight ---- *)
    pc,               \* position of the decode between its await points
    slideList,        \* the list getSlideFiles() returned to the slide loop
    slideIndex,       \* loop variable i of the slide loop
    slides,           \* slides pushed so far
    masters, themes, media,
    warnings,         \* PPTXParser.state.warnings
    errors,           \* PPTXParser.state.errors
    progressEvents,   \* what onProgress was called with, in order
    cancelRequested,  \* the worker has handled a 'cancel' message
    cancelAt,         \* slideIndex when the cancel was handled (-1: none)
    result,           \* <<>> while in flight, <<ParseResult>> once returned
    (* ---- ThemeParser.parseTheme ---- *)
    themeInput,       \* the decoded theme part handed to parseTheme
    themeResult,      \* <<>> or <<ThemeParseResult>>
    (* ---- ThemeCache ---- *)
    cacheClass,       \* the class under test: "count" (ThemeCache.ts:18) or "size" (:297)
    (* ---- ThemeCache (count-bounded, lines 18-269) ---- *)
    cbCache,          \* Map themeId -> entry, as a sequence in insertion order
    cbMax,            \* maxSize
    (* ---- ThemeCache (size-bounded, lines 297-552) ---- *)
    sbCache,          \* Map themeId -> entry, as a sequence in insertion order
    sbMaxSize,        \* maxSize
    sbMaxEntries,     \* maxEntries
    (* ---- shared by both caches ---- *)
    now,              \* Date.now()
    lastOp,           \* the cache operation just executed, with what it returned
    stored,           \* history: per themeId, what set stored last and nothing removed since
    (* ---- tint, shade, alpha and opacity decoding ---- *)
    pctInput,         \* the element handed to the decoding function
    pctOut,           \* <<>> or <<[op, value]>>: the function called and what it returned
    colorTS,          \* <<>> or <<[tint, shade]>>: the ColorInfo applyTintShade returned
    (* ---- EMU and pixel conversion ---- *)
    emuIn,            \* the EMU value converted
    emuPixels,        \* <<>> or <<[impl, value]>>: what emuToPixels returned
    emuBack,          \* <<>> or <<value>>: what pixelsToEmu returned for emuPixels
    (* ---- slide elements: SlideParser.parseElements and ElementMapper ---- *)
    mapSettings,      \* the ImportSettings of the import message
    mapTree,          \* the shape tree of the slide, as the decoder sees it
    mapResult,        \* <<>> or <<[via, elements, warnings, errors]>>
    (* ---- the ids of two decodes of one byte buffer ---- *)
    idPackage,        \* the parts of the buffer: how many shapes, masters, themes, media
    idCurrent,        \* what the decode in flight has produced so far
    idResults,        \* the data of the decodes that returned, in order
    idNow,            \* Date.now()
    (* ---- validation of the messages of the UI ---- *)
    valMessage,       \* the message handed to validateUIMessage
    valOut,           \* <<>> or <<[op, value]>>: the function called and what it returned
    (* ---- decoding of a colour node ---- *)
    colNode,          \* the colour node handed to the decoder, <<>> for none
    colOut,           \* <<>> or <<[op, result]>>: the decoder called and what it returned
    (* ---- the scale factor of the mappers ---- *)
    scData,           \* the element data handed to the mapper: x, y, width, height in EMU
    scScale,          \* context.scale, a fraction
    scOut,            \* <<>> or <<[op, atScale, atOne]>>: the element mapped at both scales
    tpElements,       \* the mapped elements handed to the theme pass
    tpResult,         \* <<>> before the pass, <<r>> after it
    twPkg,            \* the input package of each parse invocation
    twPc,             \* where each invocation stands
    twZip,            \* this.zip: 0 for null, k for the JSZip object invocation k made
    twLoaded,         \* whether loadAsync of each JSZip object has completed
    twWarnRef,        \* the array this.state.warnings refers to
    twArrays,         \* the contents of the warnings arrays
    twStage,          \* the kind of part each invocation is parsing
    twFiles,          \* the files of that kind each invocation has still to read
    twOut,            \* the parts each invocation has collected
    twResult,         \* what each invocation returned, <<>> before
    twOverlap,        \* whether an invocation started while the other was in flight
    wkPc,             \* where the handler of each parse message stands
    wkSteps,          \* the progress callbacks each parse has made
    wkParser,         \* the global parser of the worker: <<>> for null
    wkCancels,        \* the cancel messages handled so far
    wkPosted,         \* the messages posted to the main thread, in order
    mnPayload,        \* the payload of each render-pptx message
    mnPc,             \* where the handler of each render-pptx message stands
    mnIndex,          \* the slide each handler is creating, from 0
    mnOthers,         \* the malformed and unknown messages handled so far
    mnClosed,         \* whether figma.closePlugin has run
    mnPosted,         \* the messages posted to the UI, in order
    imCache,          \* ImageMapper.imageCache: the set of <<hash, content>> entries
    imOut             \* the last call of mapImageElement, <<>> before the first

decodeVars == <<impl, zipOk, presentationPart, sldIds, slideFiles, masterFiles, themeFiles,
                mediaFiles, pc, slideList, slideIndex, slides, masters, themes, media,
                warnings, errors, progressEvents, cancelRequested, cancelAt, result>>
themeVars == <<themeInput, themeResult>>
cacheVars == <<cacheClass, cbCache, cbMax, sbCache, sbMaxSize, sbMaxEntries, now, lastOp,
               stored>>
pctVars == <<pctInput, pctOut, colorTS>>
emuVars == <<emuIn, emuPixels, emuBack>>
mapVars == <<mapSettings, mapTree, mapResult>>
idsVars == <<idPackage, idCurrent, idResults, idNow>>
valVars == <<valMessage, valOut>>
colVars == <<colNode, colOut>>
scaleVars == <<scData, scScale, scOut>>
passVars == <<tpElements, tpResult>>
twoVars == <<twPkg, twPc, twZip, twLoaded, twWarnRef, twArrays, twStage, twFiles, twOut, twResult, twOverlap>>
workerVars == <<wkPc, wkSteps, wkParser, wkCancels, wkPosted>>
mainVars == <<mnPayload, mnPc, mnIndex, mnOthers, mnClosed, mnPosted>>
dedupVars == <<imCache, imOut>>
\* The variables of the other parts of the program, for each part.
notDecode == <<themeVars, cacheVars, pctVars, emuVars, mapVars, idsVars, valVars, colVars, scaleVars, passVars, twoVars, workerVars, mainVars, dedupVars>>
notTheme == <<decodeVars, cacheVars, pctVars, emuVars, mapVars, idsVars, valVars, colVars, scaleVars, passVars, twoVars, workerVars, mainVars, dedupVars>>
notCache == <<decodeVars, themeVars, pctVars, emuVars, mapVars, idsVars, valVars, colVars, scaleVars, passVars, twoVars, workerVars, mainVars, dedupVars>>
notPct == <<decodeVars, themeVars, cacheVars, emuVars, mapVars, idsVars, valVars, colVars, scaleVars, passVars, twoVars, workerVars, mainVars, dedupVars>>
notEmu == <<decodeVars, themeVars, cacheVars, pctVars, mapVars, idsVars, valVars, colVars, scaleVars, passVars, twoVars, workerVars, mainVars, dedupVars>>
notMap == <<decodeVars, themeVars, cacheVars, pctVars, emuVars, idsVars, valVars, colVars, scaleVars, passVars, twoVars, workerVars, mainVars, dedupVars>>
notIds == <<decodeVars, themeVars, cacheVars, pctVars, emuVars, mapVars, valVars, colVars, scaleVars, passVars, twoVars, workerVars, mainVars, dedupVars>>
notVal == <<decodeVars, themeVars, cacheVars, pctVars, emuVars, mapVars, idsVars, colVars, scaleVars, passVars, twoVars, workerVars, mainVars, dedupVars>>
notCol == <<decodeVars, themeVars, cacheVars, pctVars, emuVars, mapVars, idsVars, valVars, scaleVars, passVars, twoVars, workerVars, mainVars, dedupVars>>
notScale == <<decodeVars, themeVars, cacheVars, pctVars, emuVars, mapVars, idsVars, valVars, colVars, passVars, twoVars, workerVars, mainVars, dedupVars>>
notPass == <<decodeVars, themeVars, cacheVars, pctVars, emuVars, mapVars, idsVars, valVars, colVars, scaleVars, twoVars, workerVars, mainVars, dedupVars>>
notTwo == <<decodeVars, themeVars, cacheVars, pctVars, emuVars, mapVars, idsVars, valVars, colVars, scaleVars, passVars, workerVars, mainVars, dedupVars>>
notWorker == <<decodeVars, themeVars, cacheVars, pctVars, emuVars, mapVars, idsVars, valVars, colVars, scaleVars, passVars, twoVars, mainVars, dedupVars>>
notMain == <<decodeVars, themeVars, cacheVars, pctVars, emuVars, mapVars, idsVars, valVars, colVars, scaleVars, passVars, twoVars, workerVars, dedupVars>>
notDedup == <<decodeVars, themeVars, cacheVars, pctVars, emuVars, mapVars, idsVars, valVars, colVars, scaleVars, passVars, twoVars, workerVars, mainVars>>
vars == <<decodeVars, themeVars, cacheVars, pctVars, emuVars, mapVars, idsVars, valVars, colVars, scaleVars, passVars, twoVars, workerVars, mainVars, dedupVars>>

(***************************************************************************)
(* Bounds                                                                  *)
(***************************************************************************)
MaxSlideFiles == 2

\* Numeric suffixes of the slide file names, as the digit strings they are.
SlideNames == { <<2>>, <<3>>, <<1, 0>> }
\* What the decoder sees of a slide part:
\*   "malformed": the XML library throws
\*   "noroot"   : the decoded tree has no p:sld key
\*   "sld"      : the decoded tree is {p:sld: {...}} (an ordinary slide)
\*   "nested"   : the decoded tree is {p:sld: {p:sld: {...}, ...}}
SlideKinds == { "malformed", "noroot", "sld", "nested" }
PresentationKinds == { "missing", "malformed", "noroot", "ok" }
OtherPartLists == { <<>>, <<"ok">>, <<"bad", "ok">> }
\* The p:sldId entries of presentation.xml: "ok" carries id and r:id, "norid"
\* lacks the r:id attribute.
SldIdLists == { <<>>, <<"ok">>, <<"ok", "ok">>, <<"ok", "norid">> }

Range(s) == { s[i] : i \in 1..Len(s) }

SeqsUpTo(S, n) == UNION { [1..k -> S] : k \in 0..n }

SlideFileLists ==
    { s \in SeqsUpTo([name : SlideNames, kind : SlideKinds], MaxSlideFiles) :
        \A i, j \in 1..Len(s) : i # j => s[i].name # s[j].name }

(***************************************************************************)
(* Helpers of the orchestrators                                            *)
(***************************************************************************)
\* parseInt of a digit string (validation.ts:680, the match of /slide(\d+)/).
RECURSIVE ParseInt(_)
ParseInt(digits) ==
    IF digits = <<>> THEN 0
    ELSE 10 * ParseInt(SubSeq(digits, 1, Len(digits) - 1)) + digits[Len(digits)]

\* Array.prototype.sort with the comparator aNum - bNum (stable).
RECURSIVE InsertByNum(_, _)
InsertByNum(sorted, f) ==
    IF sorted = <<>> THEN <<f>>
    ELSE IF ParseInt(f.name) < ParseInt(Head(sorted).name)
         THEN <<f>> \o sorted
         ELSE <<Head(sorted)>> \o InsertByNum(Tail(sorted), f)

RECURSIVE SortByNum(_)
SortByNum(files) ==
    IF files = <<>> THEN <<>>
    ELSE InsertByNum(SortByNum(SubSeq(files, 1, Len(files) - 1)), files[Len(files)])

\* PPTXParser.getSlideFiles: Object.values(zip.files).filter(...), no sort.
PPTXParser_getSlideFiles == slideFiles

\* PPTXAdapter.getSlideFiles: the same filter followed by the numeric sort.
PPTXAdapter_getSlideFiles == SortByNum(slideFiles)

\* SlideParser.parse: throws unless data['p:sld']?.['p:sld'] is there.
SlideParser_parse_ok(kind) == kind = "nested"

\* xmlParser.parse + CoreParser.parseSlide: the root is defaulted to {} when
\* absent, so only the XML library can throw.
CoreParser_parseSlide_ok(kind) == kind # "malformed"

\* PresentationParser.parse: throws on malformed XML and on a tree without
\* the presentation key.
PresentationParser_parse_ok(kind) == kind = "ok"

\* xmlParser.parse + CoreParser.parsePresentation: presentation defaults to {}.
CoreParser_parsePresentation_ok(kind) == kind \in { "noroot", "ok" }

\* A progress percentage is a rational number num/den (the slide loop
\* reports 40 + (i / n) * 20).
Pct(n) == [num |-> n, den |-> 1]
PctLeq(a, b) == a.num * b.den <= b.num * a.den

\* PPTXParser_slideProgress counting the remaining slides instead of the done ones.
PPTXParser_slideProgress_remaining(i, n) == [num |-> 40 * n + (n - i) * 20, den |-> n]

\* PPTXParser.parseSlides, progress of iteration i (0-based) of n.
PPTXParser_slideProgress(i, n) == [num |-> 40 * n + i * 20, den |-> n]

\* PPTXAdapter.parseSlideFiles, progress of iteration i (0-based) of n.
PPTXAdapter_slideProgress(i, n) == [num |-> 30 * n + i * 20, den |-> n]

\* The stage a PPTXParser currentStep text belongs to. The step texts are
\* named here by tags: "init" (PPTXParser.ts:40), "loadZip" (:109),
\* "presentation" (:123), "slides" (:158), "slide" (:169), "masters" (:193),
\* "themes" (:220), "media" (:247), "completed" (:73), "error" (:95) and
\* "cancelled" (parser.worker.ts:87).
StageOf(step) ==
    CASE step = "init" -> "initializing"
      [] step = "loadZip" -> "loading"
      [] step = "completed" -> "completed"
      [] step = "error" -> "error"
      [] step = "cancelled" -> "cancelled"
      [] OTHER -> "parsing"

\* One call of onProgress.
Event(from, stage, progress) == [from |-> from, stage |-> stage, progress |-> progress]

\* PPTXParser.updateState({currentStep, progress}) followed by onProgress.
updateState(step, progress) == Event("decoder", StageOf(step), progress)

\* PPTXAdapter.updateProgress({stage, progress, message}).
updateProgress(stage, progress) == Event("decoder", stage, progress)


IndexSeq(n) == [i \in 1..n |-> i]

\* The parts of a master/theme/media list that parse, by 1-based position.
PartsParsed(files) == SelectSeq(IndexSeq(Len(files)), LAMBDA i : files[i] = "ok")

\* PartWarnings with the failure only logged, never pushed to the warnings.
PartWarnings_logOnly(kind, files) == <<>>

\* The warnings PPTXParser pushes for the parts of such a list that throw.
PartWarnings(kind, files) ==
    LET bad == SelectSeq(IndexSeq(Len(files)), LAMBDA i : files[i] = "bad")
    IN  [k \in 1..Len(bad) |-> [kind |-> kind, number |-> bad[k]]]

\* The loop condition of the slide loop, i < slideFiles.length.
SlideLoopContinues(i, n) == i < n

\* PresentationParser.parse: slideCount is the number of entries parseSlideIds
\* keeps, those with both id and r:id.
PresentationParser_parse(ids) ==
    [slideCount |-> Len(SelectSeq(ids, LAMBDA e : e = "ok"))]

\* CoreParser.parsePresentation: slideCount is the length of sldIdLst.sldId
\* when it is an array, which it is for two entries or more, and 0 otherwise.
CoreParser_parsePresentation(ids) ==
    [slideCount |-> IF Len(ids) >= 2 THEN Len(ids) ELSE 0]

\* The object a successful decode returns.
SuccessResult(data, errs, warns) ==
    [success |-> TRUE, data |-> data, errors |-> errs, warnings |-> warns]

\* FailureResult handing out what was accumulated before the error.
FailureResult_withData(errs, warns) ==
    [success |-> FALSE, data |-> [slides |-> slides, masters |-> masters,
                                  themes |-> themes, media |-> media],
     errors |-> errs, warnings |-> warns]

\* The object the catch block of parse / parsePPTX returns.
FailureResult(errs, warns) ==
    [success |-> FALSE, errors |-> errs, warnings |-> warns]

(***************************************************************************)
(* PPTXParser.parse (src/src/parser/PPTXParser.ts)                         *)
(***************************************************************************)
\* The catch block of parse: report the error step with progress 0 and
\* return a failure carrying the message.
PPTXParser_catch(evs, message) ==
    /\ progressEvents' = evs \o <<updateState("error", Pct(0))>>
    /\ result' = <<FailureResult(errors \o <<message>>, warnings)>>
    /\ pc' = "done"

PPTXParser_parse ==
    /\ impl = "PPTXParser"
    /\ pc = "idle"
    /\ progressEvents' = progressEvents \o <<updateState("init", Pct(0))>>
    /\ errors' = <<>>
    /\ warnings' = <<>>
    /\ pc' = "loadZipArchive"
    /\ UNCHANGED notDecode
    /\ UNCHANGED <<impl, zipOk, presentationPart, sldIds, slideFiles, masterFiles, themeFiles,
                   mediaFiles, slideList, slideIndex, slides, masters, themes, media,
                   cancelRequested, cancelAt, result>>

PPTXParser_loadZipArchive ==
    /\ impl = "PPTXParser"
    /\ pc = "loadZipArchive"
    /\ LET evs == progressEvents \o <<updateState("loadZip", Pct(10))>>
       IN  IF zipOk
           THEN /\ progressEvents' = evs
                /\ pc' = "parsePresentation"
                /\ UNCHANGED result
           ELSE PPTXParser_catch(evs, "Failed to load ZIP archive")
    /\ UNCHANGED notDecode
    /\ UNCHANGED <<impl, zipOk, presentationPart, sldIds, slideFiles, masterFiles, themeFiles,
                   mediaFiles, slideList, slideIndex, slides, masters, themes, media,
                   warnings, errors, cancelRequested, cancelAt>>

PPTXParser_parsePresentation ==
    /\ impl = "PPTXParser"
    /\ pc = "parsePresentation"
    /\ LET evs == progressEvents \o <<updateState("presentation", Pct(20))>>
       IN  IF presentationPart # "missing" /\ PresentationParser_parse_ok(presentationPart)
           THEN /\ progressEvents' = evs
                /\ pc' = "parseSlides"
                /\ UNCHANGED result
           ELSE PPTXParser_catch(evs, "Failed to parse presentation.xml")
    /\ UNCHANGED notDecode
    /\ UNCHANGED <<impl, zipOk, presentationPart, sldIds, slideFiles, masterFiles, themeFiles,
                   mediaFiles, slideList, slideIndex, slides, masters, themes, media,
                   warnings, errors, cancelRequested, cancelAt>>

\* The head of parseSlides: report, take the file list, enter the loop.
PPTXParser_parseSlides ==
    /\ impl = "PPTXParser"
    /\ pc = "parseSlides"
    /\ progressEvents' = progressEvents \o <<updateState("slides", Pct(40))>>
    /\ slideList' = PPTXParser_getSlideFiles
    /\ slideIndex' = 0
    /\ slides' = <<>>
    /\ pc' = IF SlideLoopContinues(0, Len(slideList')) THEN "slideLoop"
             ELSE "parseMasterSlides"
    /\ UNCHANGED notDecode
    /\ UNCHANGED <<impl, zipOk, presentationPart, sldIds, slideFiles, masterFiles, themeFiles,
                   mediaFiles, masters, themes, media, warnings, errors,
                   cancelRequested, cancelAt, result>>

\* One iteration of the loop of parseSlides, parseSlide included.
PPTXParser_parseSlide ==
    /\ impl = "PPTXParser"
    /\ pc = "slideLoop"
    /\ LET n == Len(slideList)
           slideFile == slideList[slideIndex + 1]
           slideNumber == slideIndex + 1
       IN  /\ progressEvents' = progressEvents \o
                  <<updateState("slide", PPTXParser_slideProgress(slideIndex, n))>>
           /\ IF SlideParser_parse_ok(slideFile.kind)
              THEN /\ slides' = Append(slides, [number |-> slideNumber,
                                                source |-> slideFile.name])
                   /\ UNCHANGED warnings
              ELSE /\ warnings' = Append(warnings, [kind |-> "slide",
                                                    number |-> slideNumber])
                   /\ UNCHANGED slides
           /\ slideIndex' = slideIndex + 1
           /\ pc' = IF SlideLoopContinues(slideIndex', n) THEN "slideLoop"
                    ELSE "parseMasterSlides"
    /\ UNCHANGED notDecode
    /\ UNCHANGED <<impl, zipOk, presentationPart, sldIds, slideFiles, masterFiles, themeFiles,
                   mediaFiles, slideList, masters, themes, media, errors,
                   cancelRequested, cancelAt, result>>

PPTXParser_parseMasterSlides ==
    /\ impl = "PPTXParser"
    /\ pc = "parseMasterSlides"
    /\ progressEvents' = progressEvents \o <<updateState("masters", Pct(60))>>
    /\ masters' = PartsParsed(masterFiles)
    /\ warnings' = warnings \o PartWarnings("master", masterFiles)
    /\ pc' = "parseThemes"
    /\ UNCHANGED notDecode
    /\ UNCHANGED <<impl, zipOk, presentationPart, sldIds, slideFiles, masterFiles, themeFiles,
                   mediaFiles, slideList, slideIndex, slides, themes, media, errors,
                   cancelRequested, cancelAt, result>>

PPTXParser_parseThemes ==
    /\ impl = "PPTXParser"
    /\ pc = "parseThemes"
    /\ progressEvents' = progressEvents \o <<updateState("themes", Pct(70))>>
    /\ themes' = PartsParsed(themeFiles)
    /\ warnings' = warnings \o PartWarnings("theme", themeFiles)
    /\ pc' = "parseMediaFiles"
    /\ UNCHANGED notDecode
    /\ UNCHANGED <<impl, zipOk, presentationPart, sldIds, slideFiles, masterFiles, themeFiles,
                   mediaFiles, slideList, slideIndex, slides, masters, media, errors,
                   cancelRequested, cancelAt, result>>

\* parseMediaFiles and the rest of parse: the completed report and the result.
PPTXParser_parseMediaFiles ==
    /\ impl = "PPTXParser"
    /\ pc = "parseMediaFiles"
    /\ progressEvents' = progressEvents \o
           <<updateState("media", Pct(80)), updateState("completed", Pct(100))>>
    /\ media' = PartsParsed(mediaFiles)
    /\ warnings' = warnings \o PartWarnings("media", mediaFiles)
    /\ result' = <<SuccessResult([slides |-> slides, masters |-> masters,
                                  themes |-> themes, media |-> media',
                                  presentation |-> PresentationParser_parse(sldIds)],
                                 errors, warnings')>>
    /\ pc' = "done"
    /\ UNCHANGED notDecode
    /\ UNCHANGED <<impl, zipOk, presentationPart, sldIds, slideFiles, masterFiles, themeFiles,
                   mediaFiles, slideList, slideIndex, slides, masters, themes, errors,
                   cancelRequested, cancelAt>>

(***************************************************************************)
(* The worker around PPTXParser (src/src/workers/parser.worker.ts)         *)
(***************************************************************************)
\* handleCancel, run for a 'cancel' message that arrives while handleParse
\* waits at one of its await points: it posts one progress message and
\* touches nothing of the parser.
handleCancel ==
    /\ impl = "PPTXParser"
    /\ pc \notin { "idle", "done" }
    /\ ~cancelRequested
    /\ cancelRequested' = TRUE
    /\ cancelAt' = slideIndex
    /\ progressEvents' = progressEvents \o <<Event("worker", StageOf("cancelled"), Pct(0))>>
    /\ UNCHANGED notDecode
    /\ UNCHANGED <<impl, zipOk, presentationPart, sldIds, slideFiles, masterFiles, themeFiles,
                   mediaFiles, pc, slideList, slideIndex, slides, masters, themes,
                   media, warnings, errors, result>>


(***************************************************************************)
(* PPTXAdapter.parsePPTX (src/src/shared/validation.ts, pptx-adapter.ts)   *)
(***************************************************************************)
\* The catch block of parsePPTX.
PPTXAdapter_catch(evs, message) ==
    /\ progressEvents' = evs \o <<updateProgress("error", Pct(0))>>
    /\ result' = <<FailureResult(<<message>>, <<>>)>>
    /\ pc' = "done"

PPTXAdapter_parsePPTX ==
    /\ impl = "PPTXAdapter"
    /\ pc = "idle"
    /\ progressEvents' = progressEvents \o <<updateProgress("initializing", Pct(0))>>
    /\ pc' = "loadZipArchive"
    /\ UNCHANGED notDecode
    /\ UNCHANGED <<impl, zipOk, presentationPart, sldIds, slideFiles, masterFiles, themeFiles,
                   mediaFiles, slideList, slideIndex, slides, masters, themes, media,
                   warnings, errors, cancelRequested, cancelAt, result>>

PPTXAdapter_loadZipArchive ==
    /\ impl = "PPTXAdapter"
    /\ pc = "loadZipArchive"
    /\ LET evs == progressEvents \o <<updateProgress("loading", Pct(10))>>
       IN  IF zipOk
           THEN /\ progressEvents' = evs
                /\ pc' = "parsePresentation"
                /\ UNCHANGED result
           ELSE PPTXAdapter_catch(evs, "loadAsync failed")
    /\ UNCHANGED notDecode
    /\ UNCHANGED <<impl, zipOk, presentationPart, sldIds, slideFiles, masterFiles, themeFiles,
                   mediaFiles, slideList, slideIndex, slides, masters, themes, media,
                   warnings, errors, cancelRequested, cancelAt>>

PPTXAdapter_parsePresentationFile ==
    /\ impl = "PPTXAdapter"
    /\ pc = "parsePresentation"
    /\ LET evs == progressEvents \o <<updateProgress("parsing", Pct(20))>>
       IN  IF presentationPart # "missing"
              /\ CoreParser_parsePresentation_ok(presentationPart)
           THEN /\ progressEvents' = evs
                /\ pc' = "parseSlides"
                /\ UNCHANGED result
           ELSE PPTXAdapter_catch(evs, "presentation.xml not found")
    /\ UNCHANGED notDecode
    /\ UNCHANGED <<impl, zipOk, presentationPart, sldIds, slideFiles, masterFiles, themeFiles,
                   mediaFiles, slideList, slideIndex, slides, masters, themes, media,
                   warnings, errors, cancelRequested, cancelAt>>

\* The head of parseSlideFiles.
PPTXAdapter_parseSlideFiles ==
    /\ impl = "PPTXAdapter"
    /\ pc = "parseSlides"
    /\ progressEvents' = progressEvents \o <<updateProgress("parsing", Pct(30))>>
    /\ slideList' = PPTXAdapter_getSlideFiles
    /\ slideIndex' = 0
    /\ slides' = <<>>
    /\ pc' = IF SlideLoopContinues(0, Len(slideList')) THEN "slideLoop"
             ELSE "parseMasterSlides"
    /\ UNCHANGED notDecode
    /\ UNCHANGED <<impl, zipOk, presentationPart, sldIds, slideFiles, masterFiles, themeFiles,
                   mediaFiles, masters, themes, media, warnings, errors,
                   cancelRequested, cancelAt, result>>

\* One iteration of the loop of parseSlideFiles: a failure is logged with
\* console.warn and leaves no trace in the result.
PPTXAdapter_parseSlideFile ==
    /\ impl = "PPTXAdapter"
    /\ pc = "slideLoop"
    /\ LET n == Len(slideList)
           slideFile == slideList[slideIndex + 1]
           slideNumber == slideIndex + 1
       IN  /\ progressEvents' = progressEvents \o
                  <<updateProgress("parsing", PPTXAdapter_slideProgress(slideIndex, n))>>
           /\ slides' = IF CoreParser_parseSlide_ok(slideFile.kind)
                        THEN Append(slides, [number |-> slideNumber,
                                             source |-> slideFile.name])
                        ELSE slides
           /\ slideIndex' = slideIndex + 1
           /\ pc' = IF SlideLoopContinues(slideIndex', n) THEN "slideLoop"
                    ELSE "parseMasterSlides"
    /\ UNCHANGED notDecode
    /\ UNCHANGED <<impl, zipOk, presentationPart, sldIds, slideFiles, masterFiles, themeFiles,
                   mediaFiles, slideList, masters, themes, media, warnings, errors,
                   cancelRequested, cancelAt, result>>

PPTXAdapter_parseMasterSlideFiles ==
    /\ impl = "PPTXAdapter"
    /\ pc = "parseMasterSlides"
    /\ progressEvents' = progressEvents \o <<updateProgress("parsing", Pct(50))>>
    /\ masters' = PartsParsed(masterFiles)
    /\ pc' = "parseThemes"
    /\ UNCHANGED notDecode
    /\ UNCHANGED <<impl, zipOk, presentationPart, sldIds, slideFiles, masterFiles, themeFiles,
                   mediaFiles, slideList, slideIndex, slides, themes, media, warnings,
                   errors, cancelRequested, cancelAt, result>>

PPTXAdapter_parseThemeFiles ==
    /\ impl = "PPTXAdapter"
    /\ pc = "parseThemes"
    /\ progressEvents' = progressEvents \o <<updateProgress("parsing", Pct(60))>>
    /\ themes' = PartsParsed(themeFiles)
    /\ pc' = "parseMediaFiles"
    /\ UNCHANGED notDecode
    /\ UNCHANGED <<impl, zipOk, presentationPart, sldIds, slideFiles, masterFiles, themeFiles,
                   mediaFiles, slideList, slideIndex, slides, masters, media, warnings,
                   errors, cancelRequested, cancelAt, result>>

\* parseMediaFiles and the rest of parsePPTX: errors and warnings of the
\* result are the literals [].
PPTXAdapter_parseMediaFiles ==
    /\ impl = "PPTXAdapter"
    /\ pc = "parseMediaFiles"
    /\ progressEvents' = progressEvents \o
           <<updateProgress("parsing", Pct(70)), updateProgress("completed", Pct(100))>>
    /\ media' = PartsParsed(mediaFiles)
    /\ result' = <<SuccessResult([slides |-> slides, masters |-> masters,
                                  themes |-> themes, media |-> media',
                                  presentation |-> CoreParser_parsePresentation(sldIds)],
                                 <<>>, <<>>)>>
    /\ pc' = "done"
    /\ UNCHANGED notDecode
    /\ UNCHANGED <<impl, zipOk, presentationPart, sldIds, slideFiles, masterFiles, themeFiles,
                   mediaFiles, slideList, slideIndex, slides, masters, themes, warnings,
                   errors, cancelRequested, cancelAt>>

(***************************************************************************)
(* The decode specification                                                *)
(***************************************************************************)
\* A decode that has not started, on any package within the bounds. A
\* package that cannot be opened has no readable entries.
DecodeInit ==
    /\ impl \in { "PPTXParser", "PPTXAdapter" }
    /\ zipOk \in BOOLEAN
    /\ presentationPart \in PresentationKinds
    /\ sldIds \in IF presentationPart = "ok" THEN SldIdLists ELSE { <<>> }
    /\ slideFiles \in SlideFileLists
    /\ masterFiles \in OtherPartLists
    /\ themeFiles \in OtherPartLists
    /\ mediaFiles \in OtherPartLists
    /\ ~zipOk => /\ presentationPart = "missing"
                 /\ slideFiles = <<>>
                 /\ masterFiles = <<>>
                 /\ themeFiles = <<>>
                 /\ mediaFiles = <<>>
    /\ pc = "idle"
    /\ slideList = <<>>
    /\ slideIndex = 0
    /\ slides = <<>>
    /\ masters = <<>>
    /\ themes = <<>>
    /\ media = <<>>
    /\ warnings = <<>>
    /\ errors = <<>>
    /\ progressEvents = <<>>
    /\ cancelRequested = FALSE
    /\ cancelAt = -1
    /\ result = <<>>

\* The decode variables of a specification that runs no decode.
DecodeUnused ==
    /\ impl = "none"
    /\ zipOk = FALSE
    /\ presentationPart = "missing"
    /\ sldIds = <<>>
    /\ slideFiles = <<>>
    /\ masterFiles = <<>>
    /\ themeFiles = <<>>
    /\ mediaFiles = <<>>
    /\ pc = "idle"
    /\ slideList = <<>>
    /\ slideIndex = 0
    /\ slides = <<>>
    /\ masters = <<>>
    /\ themes = <<>>
    /\ media = <<>>
    /\ warnings = <<>>
    /\ errors = <<>>
    /\ progressEvents = <<>>
    /\ cancelRequested = FALSE
    /\ cancelAt = -1
    /\ result = <<>>

ThemeUnused ==
    /\ themeInput = <<>>
    /\ themeResult = <<>>

CacheUnused ==
    /\ cacheClass = "none"
    /\ cbCache = <<>>
    /\ cbMax = 0
    /\ sbCache = <<>>
    /\ sbMaxSize = 0
    /\ sbMaxEntries = 0
    /\ now = 0
    /\ lastOp = [op |-> "none", id |-> "", ret |-> <<>>]
    /\ stored = <<>>

PctUnused ==
    /\ pctInput = <<>>
    /\ pctOut = <<>>
    /\ colorTS = <<>>

EmuUnused ==
    /\ emuIn = 0
    /\ emuPixels = <<>>
    /\ emuBack = <<>>

MapUnused ==
    /\ mapSettings = <<>>
    /\ mapTree = <<>>
    /\ mapResult = <<>>

IdsUnused ==
    /\ idPackage = <<>>
    /\ idCurrent = <<>>
    /\ idResults = <<>>
    /\ idNow = 0

ValUnused ==
    /\ valMessage = <<>>
    /\ valOut = <<>>

ColUnused ==
    /\ colNode = <<>>
    /\ colOut = <<>>

ScaleUnused ==
    /\ scData = <<>>
    /\ scScale = <<>>
    /\ scOut = <<>>

PassUnused ==
    /\ tpElements = <<>>
    /\ tpResult = <<>>

TwoUnused ==
    /\ twPkg = <<>>
    /\ twPc = <<>>
    /\ twZip = 0
    /\ twLoaded = <<>>
    /\ twWarnRef = 0
    /\ twArrays = <<>>
    /\ twStage = <<>>
    /\ twFiles = <<>>
    /\ twOut = <<>>
    /\ twResult = <<>>
    /\ twOverlap = FALSE

WorkerUnused ==
    /\ wkPc = <<>>
    /\ wkSteps = <<>>
    /\ wkParser = <<>>
    /\ wkCancels = 0
    /\ wkPosted = <<>>

MainUnused ==
    /\ mnPayload = <<>>
    /\ mnPc = <<>>
    /\ mnIndex = <<>>
    /\ mnOthers = 0
    /\ mnClosed = FALSE
    /\ mnPosted = <<>>

DedupUnused ==
    /\ imCache = {}
    /\ imOut = <<>>

NextDecode ==
    \/ PPTXParser_parse
    \/ PPTXParser_loadZipArchive
    \/ PPTXParser_parsePresentation
    \/ PPTXParser_parseSlides
    \/ PPTXParser_parseSlide
    \/ PPTXParser_parseMasterSlides
    \/ PPTXParser_parseThemes
    \/ PPTXParser_parseMediaFiles
    \/ handleCancel
    \/ PPTXAdapter_parsePPTX
    \/ PPTXAdapter_loadZipArchive
    \/ PPTXAdapter_parsePresentationFile
    \/ PPTXAdapter_parseSlideFiles
    \/ PPTXAdapter_parseSlideFile
    \/ PPTXAdapter_parseMasterSlideFiles
    \/ PPTXAdapter_parseThemeFiles
    \/ PPTXAdapter_parseMediaFiles

InitDecode == DecodeInit /\ ThemeUnused /\ CacheUnused /\ PctUnused /\ EmuUnused /\ MapUnused /\ IdsUnused /\ ValUnused /\ ColUnused /\ ScaleUnused /\ PassUnused /\ TwoUnused /\ WorkerUnused /\ MainUnused /\ DedupUnused

SpecDecode == InitDecode /\ [][NextDecode]_vars


(***************************************************************************)
(* Properties of the decode                                                *)
(***************************************************************************)
Done == pc = "done"
Res == result[1]

\* A slide part the claims call malformed: unparseable XML or no slide root.
MalformedSlide(f) == f.kind \in { "malformed", "noroot" }

MalformedPositions(files) == { i \in 1..Len(files) : MalformedSlide(files[i]) }

AllOk(files) == \A i \in 1..Len(files) : files[i] = "ok"

\* A package with a valid presentation part, exactly one malformed slide
\* part, and no other failing part.
OneMalformedSlidePackage ==
    /\ zipOk
    /\ presentationPart = "ok"
    /\ Cardinality(MalformedPositions(slideFiles)) = 1
    /\ AllOk(masterFiles) /\ AllOk(themeFiles) /\ AllOk(mediaFiles)

\* C1: a decode of a package with N slide parts of which exactly one is
\* malformed returns success=true, N-1 slides and exactly one warning, which
\* names the failed slide (by the slide number the decoder gave it).
C1_ResilienceOneMalformedSlide ==
    (Done /\ OneMalformedSlidePackage) =>
        /\ Res.success
        /\ Len(Res.data.slides) = Len(slideFiles) - 1
        /\ Len(Res.warnings) = 1
        /\ Res.warnings[1].kind = "slide"
        /\ Res.warnings[1].number \in MalformedPositions(slideList)

\* The positions of the slide parts SlideParser.parse throws on.
FailingSlides == { i \in 1..Len(slideFiles) : ~SlideParser_parse_ok(slideFiles[i].kind) }
BadPositions(files) == { i \in 1..Len(files) : files[i] = "bad" }

HasWarning(ws, kind, i) == \E k \in 1..Len(ws) : ws[k] = [kind |-> kind, number |-> i]

\* C2: PPTXParser.parse fails only when the archive cannot be loaded or the
\* presentation part is missing or unparseable; otherwise it succeeds, every
\* failing slide, master, theme and media part has its warning in the
\* result and nothing else has, and every part that parses is in the
\* result.
C2_PartFailuresNeverAbort ==
    (Done /\ impl = "PPTXParser") =>
        /\ ~Res.success => (~zipOk \/ presentationPart \in { "missing", "malformed", "noroot" })
        /\ (zipOk /\ presentationPart = "ok") =>
              /\ Res.success
              /\ \A i \in FailingSlides : HasWarning(Res.warnings, "slide", i)
              /\ \A i \in BadPositions(masterFiles) : HasWarning(Res.warnings, "master", i)
              /\ \A i \in BadPositions(themeFiles) : HasWarning(Res.warnings, "theme", i)
              /\ \A i \in BadPositions(mediaFiles) : HasWarning(Res.warnings, "media", i)
              /\ Len(Res.warnings) = Cardinality(FailingSlides)
                     + Cardinality(BadPositions(masterFiles))
                     + Cardinality(BadPositions(themeFiles))
                     + Cardinality(BadPositions(mediaFiles))
              /\ Len(Res.data.slides) = Len(slideFiles) - Cardinality(FailingSlides)
              /\ Len(Res.data.masters) = Len(masterFiles) - Cardinality(BadPositions(masterFiles))
              /\ Len(Res.data.themes) = Len(themeFiles) - Cardinality(BadPositions(themeFiles))
              /\ Len(Res.data.media) = Len(mediaFiles) - Cardinality(BadPositions(mediaFiles))

\* C2 witness: a successful PPTXParser decode in which a slide part failed
\* before another one parsed, and a master, a theme and a media part failed.
C2_Witness ==
    /\ Done /\ impl = "PPTXParser" /\ Res.success
    /\ \E i, j \in 1..Len(slideFiles) :
          i < j /\ i \in FailingSlides /\ j \notin FailingSlides
    /\ BadPositions(masterFiles) # {}
    /\ BadPositions(themeFiles) # {}
    /\ BadPositions(mediaFiles) # {}
    /\ Len(Res.data.media) = 1

\* C3: in every returned ParseResult, of either orchestrator, success=false
\* implies that the data field is absent.
C3_FailureHasNoData ==
    Done => (~Res.success => "data" \notin DOMAIN Res)

\* C3 witness: a decode that failed on the presentation part after the
\* archive was loaded.
C3_Witness ==
    /\ Done /\ ~Res.success /\ zipOk
    /\ Len(Res.errors) = 1

\* The slides of a list are in ascending order of the numeric suffix of the
\* file each came from.
SortedBySuffix(ss) ==
    \A i, j \in 1..Len(ss) : i < j => ParseInt(ss[i].source) <= ParseInt(ss[j].source)

\* C4: the slides of a successful decode are sorted ascending by the numeric
\* suffix of their slide file, whatever the ZIP enumeration order, in both
\* orchestrators.
C4_SlidesSortedBySuffix ==
    (Done /\ Res.success) => SortedBySuffix(Res.data.slides)

\* The progress events the decoder itself emitted.
DecoderEvents == SelectSeq(progressEvents, LAMBDA e : e.from = "decoder")

StageRank(stage) ==
    CASE stage = "initializing" -> 0
      [] stage = "loading" -> 1
      [] stage = "parsing" -> 2
      [] stage = "completed" -> 3
      [] stage = "error" -> 3

\* C5: in the sequence of progress events of one decode the stage never
\* moves backwards (initializing, loading, parsing, then completed or error)
\* and within a stage the percentage never decreases.
C5_ProgressMonotone ==
    LET evs == DecoderEvents
    IN  \A i \in 1..(Len(evs) - 1) :
           /\ StageRank(evs[i].stage) <= StageRank(evs[i + 1].stage)
           /\ evs[i].stage = evs[i + 1].stage =>
                  PctLeq(evs[i].progress, evs[i + 1].progress)

\* C5, the slide loop: a PPTXParser decode that reported the progress of two
\* slides and ran to completion.
C5_WitnessSlideLoop ==
    /\ Done /\ impl = "PPTXParser" /\ Res.success
    /\ Len(slideList) = 2
    /\ Len(DecoderEvents) = 10

\* C5 witness: a decode that ended in a fatal error after parsing-stage
\* progress was reported.
C5_Witness ==
    /\ Done /\ ~Res.success
    /\ \E i \in 1..Len(DecoderEvents) : DecoderEvents[i].stage = "parsing"
    /\ DecoderEvents[Len(DecoderEvents)].stage = "error"

WorkerEvents == SelectSeq(progressEvents, LAMBDA e : e.from = "worker")

\* C6: once a cancel request is handled no slide part beyond the one in
\* progress is parsed, and the terminal result carries the slides
\* accumulated so far and a cancellation indicator.
C6_CancelStopsSlideParsing ==
    cancelRequested =>
        /\ slideIndex <= cancelAt + 1
        /\ Done => "cancelled" \in DOMAIN Res

\* What handleCancel does instead: the decode is not interrupted. The worker
\* posts one progress message (step "cancelled", progress 0); every slide
\* part is still parsed and the terminal result is the ordinary ParseResult,
\* without any cancellation indicator.
C6_CancelDoesNotInterrupt ==
    (cancelRequested /\ Done) =>
        /\ WorkerEvents = <<Event("worker", "cancelled", Pct(0))>>
        /\ DOMAIN Res \subseteq { "success", "data", "errors", "warnings" }
        /\ Res.success =>
              /\ slideIndex = Len(slideFiles)
              /\ Len(Res.data.slides) = Len(slideFiles) - Cardinality(FailingSlides)

\* A decode cancelled while slide parts were still to be parsed, which
\* completed successfully all the same.
CancelledDecodeCompleted ==
    /\ Done /\ cancelRequested /\ Res.success
    /\ cancelAt < Len(slideFiles)
    /\ Len(Res.data.slides) > cancelAt


(***************************************************************************)
(* ThemeParser.parseTheme (src/src/parser/xml/ThemeParser.ts)              *)
(***************************************************************************)
MaxSlotsPresent == 2

\* standardColors of parseColorScheme.
StandardColors == { "dk1", "lt1", "dk2", "lt2", "accent1", "accent2", "accent3",
                    "accent4", "accent5", "accent6", "hlink", "folHlink" }

\* The child a slot element of a:clrScheme carries.
ColorElementKinds == { "srgbClr", "schemeClr", "sysClr", "none" }

\* The decoded a:clrScheme subtrees within the bounds: a function from the
\* slots present to what each holds.
ClrSchemes ==
    UNION { [S -> ColorElementKinds] :
              S \in { T \in SUBSET StandardColors : Cardinality(T) <= MaxSlotsPresent } }

\* What parseTheme sees of a theme part: xml is "malformed" when the XML
\* library throws; hasTheme, hasThemeElements and hasClrScheme tell whether
\* a:theme, a:theme/a:themeElements and a:themeElements/a:clrScheme are there
\* (and truthy).
ThemeInputs ==
    { t \in [xml : { "malformed", "ok" }, hasTheme : BOOLEAN, hasThemeElements : BOOLEAN,
             hasClrScheme : BOOLEAN, clrScheme : ClrSchemes] :
        /\ t.xml = "malformed" => ~t.hasTheme
        /\ ~t.hasTheme => ~t.hasThemeElements
        /\ ~t.hasThemeElements => ~t.hasClrScheme
        /\ ~t.hasClrScheme => t.clrScheme = <<>> }

RgbColor(value) == [type |-> "rgb", value |-> value, tint |-> 0, shade |-> 0, alpha |-> 1]

\* createDefaultColorScheme().colors
DefaultColors ==
    [k \in StandardColors |->
        CASE k = "dk1" -> RgbColor("000000")
          [] k = "lt1" -> RgbColor("FFFFFF")
          [] k = "dk2" -> RgbColor("44546A")
          [] k = "lt2" -> RgbColor("E7E6E6")
          [] k = "accent1" -> RgbColor("5B9BD5")
          [] k = "accent2" -> RgbColor("ED7D31")
          [] k = "accent3" -> RgbColor("A5A5A5")
          [] k = "accent4" -> RgbColor("FFC000")
          [] k = "accent5" -> RgbColor("4472C4")
          [] k = "accent6" -> RgbColor("70AD47")
          [] k = "hlink" -> RgbColor("0563C1")
          [] k = "folHlink" -> RgbColor("954F72")]

\* parseColorInfo of a slot element whose colour child carries a val
\* attribute and no tint, shade or alpha child.
parseColorInfo(kind) ==
    CASE kind = "srgbClr" -> [type |-> "rgb", value |-> "val", tint |-> 0, shade |-> 0, alpha |-> 1]
      [] kind = "schemeClr" -> [type |-> "scheme", value |-> "val", tint |-> 0, shade |-> 0, alpha |-> 1]
      [] kind = "sysClr" -> [type |-> "system", value |-> "val", tint |-> 0, shade |-> 0, alpha |-> 1]
      [] OTHER -> RgbColor("000000")

\* parseColorScheme(clrScheme).colors: one entry per slot that is present.
parseColorScheme(clrScheme) ==
    [k \in DOMAIN clrScheme |-> parseColorInfo(clrScheme[k])]

\* parseTheme: the try block, and the catch block that answers a thrown
\* error with the default theme and an entry in errors.
parseTheme(t) ==
    IF t.xml = "malformed" \/ ~t.hasTheme
    THEN [colors |-> DefaultColors,
          errors |-> <<"Theme parsing error">>,
          warnings |-> <<>>]
    ELSE [colors |-> parseColorScheme(IF t.hasClrScheme THEN t.clrScheme ELSE <<>>),
          errors |-> <<>>,
          warnings |-> <<>>]

ParseThemeCall ==
    /\ themeResult = <<>>
    /\ themeResult' = <<parseTheme(themeInput)>>
    /\ UNCHANGED <<themeInput, notTheme>>

ThemeInit ==
    /\ themeInput \in ThemeInputs
    /\ themeResult = <<>>

InitTheme == ThemeInit /\ DecodeUnused /\ CacheUnused /\ PctUnused /\ EmuUnused /\ MapUnused /\ IdsUnused /\ ValUnused /\ ColUnused /\ ScaleUnused /\ PassUnused /\ TwoUnused /\ WorkerUnused /\ MainUnused /\ DedupUnused

NextTheme == ParseThemeCall

SpecTheme == InitTheme /\ [][NextTheme]_vars

\* C7: for a theme part without a colour scheme subtree, parseTheme returns
\* (it never throws) a colour scheme holding the 12 default slots together
\* with a non-empty warnings list.
C7_ThemeFallbackDefaults ==
    (themeResult # <<>> /\ themeInput.hasTheme /\ ~themeInput.hasClrScheme) =>
        /\ themeResult[1].colors = DefaultColors
        /\ themeResult[1].warnings # <<>>

\* C7, the part the code keeps: parseTheme returns a result for every input,
\* and a part without a:theme (or unparseable) gets the 12 default slots.
C7_DefaultsOnlyWithoutTheme ==
    (themeResult # <<>> /\ ~themeInput.hasTheme) =>
        /\ DOMAIN themeResult[1].colors = StandardColors
        /\ themeResult[1].colors = DefaultColors


(***************************************************************************)
(* ThemeCache (src/src/models/ThemeCache.ts): the count-bounded class of   *)
(* lines 18-269 and the size-bounded class of lines 297-552.               *)
(*                                                                         *)
(* A Map is a sequence of entries in insertion order. Date.now() is the    *)
(* variable now, counted in units of ClockUnitMs milliseconds. The hit and *)
(* miss statistics of the size-bounded class are left out: no operation    *)
(* reads them.                                                             *)
(***************************************************************************)
MaxTime == 1
MaxAccess == 1
MaxEntrySize == 2
MaxCacheBytes == 3
\* The weight of one access in the size-bounded score, in milliseconds.
AccessWeightMs == 1000
\* One unit of the clock: half the weight of an access.
ClockUnitMs == AccessWeightMs \div 2
\* accessCount * 1000 of the size-bounded score, in clock units.
AccessWeight == AccessWeightMs \div ClockUnitMs

ThemeIds == { "", "theme-1", "theme-2" }
ThemeValues == { "A", "B" }
\* The largest maximum count under test: with room for every id in use no
\* set would ever find the cache full.
MaxCacheCount == Cardinality(ThemeIds) - 1

IndexOfId(cache, id) ==
    IF \E i \in 1..Len(cache) : cache[i].id = id
    THEN CHOOSE i \in 1..Len(cache) : cache[i].id = id
    ELSE 0

\* Map.prototype.set: an existing key keeps its place, a new one goes last.
MapSet(cache, id, entry) ==
    IF IndexOfId(cache, id) # 0
    THEN [cache EXCEPT ![IndexOfId(cache, id)] = entry]
    ELSE Append(cache, entry)

\* Map.prototype.delete
MapDelete(cache, id) == SelectSeq(cache, LAMBDA e : e.id # id)

\* Map.prototype.get, <<>> for undefined.
MapGet(cache, id) ==
    IF IndexOfId(cache, id) # 0 THEN <<cache[IndexOfId(cache, id)]>> ELSE <<>>

\* ---- the count-bounded class ----

\* score of evictLeastUsed: accessCount * (Date.now() - lastAccessed)
cb_score(e, t) == e.accessCount * (t - e.lastAccessed)

\* The entry the loop of evictLeastUsed leaves in leastUsed: the first one,
\* in Map order, of minimal score (0 for an empty Map).
cb_leastUsed(cache, t) ==
    IF cache = <<>> THEN 0
    ELSE CHOOSE i \in 1..Len(cache) :
           /\ \A j \in 1..Len(cache) : cb_score(cache[i], t) <= cb_score(cache[j], t)
           /\ \A j \in 1..(i - 1) : cb_score(cache[j], t) > cb_score(cache[i], t)

\* evictLeastUsed: "if (leastUsed)" is false for null and for the id "".
cb_evictLeastUsed(cache, t) ==
    LET i == cb_leastUsed(cache, t)
    IN  IF i # 0 /\ cache[i].id # ""
        THEN MapDelete(cache, cache[i].id)
        ELSE cache

cb_set(cache, id, value, t) ==
    LET c1 == IF Len(cache) >= cbMax THEN cb_evictLeastUsed(cache, t) ELSE cache
    IN  MapSet(c1, id, [id |-> id, value |-> value, lastAccessed |-> t, accessCount |-> 0])

\* get returning the entry filed under a neighbouring key.
get_return_anyEntry(cache, id) ==
    IF cache = <<>> THEN <<>> ELSE <<cache[1].value>>

\* What get returns: the stored theme data of the entry under themeId, or
\* <<>> for null.
get_return(cache, id) ==
    IF MapGet(cache, id) # <<>> THEN <<MapGet(cache, id)[1].value>> ELSE <<>>

\* get on a hit: lastAccessed = Date.now(), accessCount++.
cache_touch(cache, id, t) ==
    [cache EXCEPT ![IndexOfId(cache, id)] =
        [@ EXCEPT !.lastAccessed = t, !.accessCount = @ + 1]]

CbSet(id, value) ==
    /\ cacheClass = "count"
    /\ cbCache' = cb_set(cbCache, id, value, now)
    /\ lastOp' = [op |-> "set", id |-> id, ret |-> <<>>]
    /\ stored' = [stored EXCEPT ![id] = <<value>>]
    /\ UNCHANGED notCache
    /\ UNCHANGED <<cacheClass, cbMax, sbCache, sbMaxSize, sbMaxEntries, now>>

CbGet(id) ==
    /\ cacheClass = "count"
    /\ IF MapGet(cbCache, id) # <<>>
       THEN /\ MapGet(cbCache, id)[1].accessCount < MaxAccess
            /\ cbCache' = cache_touch(cbCache, id, now)
       ELSE UNCHANGED cbCache
    /\ lastOp' = [op |-> "get", id |-> id, ret |-> get_return(cbCache, id)]
    /\ UNCHANGED stored
    /\ UNCHANGED notCache
    /\ UNCHANGED <<cacheClass, cbMax, sbCache, sbMaxSize, sbMaxEntries, now>>

CbDelete(id) ==
    /\ cacheClass = "count"
    /\ cbCache' = MapDelete(cbCache, id)
    /\ lastOp' = [op |-> "delete", id |-> id, ret |-> <<>>]
    /\ stored' = [stored EXCEPT ![id] = <<>>]
    /\ UNCHANGED notCache
    /\ UNCHANGED <<cacheClass, cbMax, sbCache, sbMaxSize, sbMaxEntries, now>>

CbClear ==
    /\ cacheClass = "count"
    /\ cbCache' = <<>>
    /\ lastOp' = [op |-> "clear", id |-> "", ret |-> <<>>]
    /\ stored' = [id \in ThemeIds |-> <<>>]
    /\ UNCHANGED notCache
    /\ UNCHANGED <<cacheClass, cbMax, sbCache, sbMaxSize, sbMaxEntries, now>>

\* ---- the size-bounded class ----

RECURSIVE SumSizes(_)
SumSizes(cache) ==
    IF cache = <<>> THEN 0 ELSE Head(cache).size + SumSizes(Tail(cache))

\* score of evictLeastUsed: lastAccessed + accessCount * 1000
sb_score(e) == e.lastAccessed + e.accessCount * AccessWeight

\* entries.sort((a, b) => scoreA - scoreB), a stable sort.
RECURSIVE sb_insert(_, _)
sb_insert(sorted, e) ==
    IF sorted = <<>> THEN <<e>>
    ELSE IF sb_score(e) < sb_score(Head(sorted))
         THEN <<e>> \o sorted
         ELSE <<Head(sorted)>> \o sb_insert(Tail(sorted), e)

RECURSIVE sb_sort(_)
sb_sort(entries) ==
    IF entries = <<>> THEN <<>>
    ELSE sb_insert(sb_sort(SubSeq(entries, 1, Len(entries) - 1)), entries[Len(entries)])

\* Math.ceil(entries.length * 0.2)
sb_toRemove(n) == (n + 4) \div 5

\* evictLeastUsed: delete the first 20% of the entries sorted by score.
sb_evictLeastUsed(cache) ==
    LET sorted == sb_sort(cache)
        gone == { sorted[i].id : i \in 1..sb_toRemove(Len(cache)) }
    IN  SelectSeq(cache, LAMBDA e : e.id \notin gone)

\* ensureCacheLimits(newEntrySize)
sb_ensureCacheLimits(cache, newEntrySize) ==
    IF SumSizes(cache) + newEntrySize > sbMaxSize \/ Len(cache) >= sbMaxEntries
    THEN sb_evictLeastUsed(cache)
    ELSE cache

\* set; size is calculateEntrySize(theme, colorScheme, fontScheme).
sb_set(cache, id, value, size, t) ==
    MapSet(sb_ensureCacheLimits(cache, size), id,
           [id |-> id, value |-> value, lastAccessed |-> t, accessCount |-> 0,
            size |-> size])

SbSet(id, value, size) ==
    /\ cacheClass = "size"
    /\ sbCache' = sb_set(sbCache, id, value, size, now)
    /\ lastOp' = [op |-> "set", id |-> id, ret |-> <<>>]
    /\ stored' = [stored EXCEPT ![id] = <<value>>]
    /\ UNCHANGED notCache
    /\ UNCHANGED <<cacheClass, cbCache, cbMax, sbMaxSize, sbMaxEntries, now>>

SbGet(id) ==
    /\ cacheClass = "size"
    /\ IF MapGet(sbCache, id) # <<>>
       THEN /\ MapGet(sbCache, id)[1].accessCount < MaxAccess
            /\ sbCache' = cache_touch(sbCache, id, now)
       ELSE UNCHANGED sbCache
    /\ lastOp' = [op |-> "get", id |-> id, ret |-> get_return(sbCache, id)]
    /\ UNCHANGED stored
    /\ UNCHANGED notCache
    /\ UNCHANGED <<cacheClass, cbCache, cbMax, sbMaxSize, sbMaxEntries, now>>

SbDelete(id) ==
    /\ cacheClass = "size"
    /\ sbCache' = MapDelete(sbCache, id)
    /\ lastOp' = [op |-> "delete", id |-> id, ret |-> <<>>]
    /\ stored' = [stored EXCEPT ![id] = <<>>]
    /\ UNCHANGED notCache
    /\ UNCHANGED <<cacheClass, cbCache, cbMax, sbMaxSize, sbMaxEntries, now>>

SbClear ==
    /\ cacheClass = "size"
    /\ sbCache' = <<>>
    /\ lastOp' = [op |-> "clear", id |-> "", ret |-> <<>>]
    /\ stored' = [id \in ThemeIds |-> <<>>]
    /\ UNCHANGED notCache
    /\ UNCHANGED <<cacheClass, cbCache, cbMax, sbMaxSize, sbMaxEntries, now>>

\* Time passes between two operations.
Tick ==
    /\ now < MaxTime
    /\ now' = now + 1
    /\ UNCHANGED notCache
    /\ UNCHANGED <<cacheClass, cbCache, cbMax, sbCache, sbMaxSize, sbMaxEntries, lastOp,
                   stored>>

\* A fresh cache of either class, with a maximum of at least 1.
CacheInit ==
    /\ cacheClass \in { "count", "size" }
    /\ cbCache = <<>>
    /\ sbCache = <<>>
    /\ IF cacheClass = "count"
       THEN /\ cbMax \in 1..MaxCacheCount
            /\ sbMaxSize = 0
            /\ sbMaxEntries = 0
       ELSE /\ cbMax = 0
            /\ sbMaxSize \in 1..MaxCacheBytes
            /\ sbMaxEntries \in 1..MaxCacheCount
    /\ now = 0
    /\ lastOp = [op |-> "none", id |-> "", ret |-> <<>>]
    /\ stored = [id \in ThemeIds |-> <<>>]

NextCache ==
    \/ \E id \in ThemeIds, value \in ThemeValues : CbSet(id, value)
    \/ \E id \in ThemeIds : CbGet(id)
    \/ \E id \in ThemeIds : CbDelete(id)
    \/ CbClear
    \/ \E id \in ThemeIds, value \in ThemeValues, size \in 1..MaxEntrySize :
          SbSet(id, value, size)
    \/ \E id \in ThemeIds : SbGet(id)
    \/ \E id \in ThemeIds : SbDelete(id)
    \/ SbClear
    \/ Tick

InitCache == CacheInit /\ DecodeUnused /\ ThemeUnused /\ PctUnused /\ EmuUnused /\ MapUnused /\ IdsUnused /\ ValUnused /\ ColUnused /\ ScaleUnused /\ PassUnused /\ TwoUnused /\ WorkerUnused /\ MainUnused /\ DedupUnused

SpecCache == InitCache /\ [][NextCache]_vars


(***************************************************************************)
(* Properties of the caches                                                *)
(***************************************************************************)
\* The Map of the class under test.
Cache == IF cacheClass = "count" THEN cbCache ELSE sbCache

\* C8: after any sequence of set, get, delete and clear the number of cached
\* entries never exceeds the configured maximum count (maxSize of the
\* count-bounded class, maxEntries of the size-bounded class).
C8_EntryCountBounded ==
    /\ cacheClass = "count" => Len(cbCache) <= cbMax
    /\ cacheClass = "size" => Len(sbCache) <= sbMaxEntries

\* C8, the part the code keeps: the size-bounded class never holds more
\* than maxEntries entries.
C8_SizeBoundedClassCountBounded ==
    cacheClass = "size" => Len(sbCache) <= sbMaxEntries

\* C9: after any sequence of set operations on the size-bounded class the
\* sum of the sizes of the cached entries never exceeds maxSize.
C9_TotalSizeBounded ==
    cacheClass = "size" => SumSizes(sbCache) <= sbMaxSize

\* The entries a step removed from the Map, and those it left in place.
Evicted(before, after) ==
    { before[i] : i \in { k \in 1..Len(before) : IndexOfId(after, before[k].id) = 0 } }
Survivors(before, after, setId) ==
    { before[i] : i \in { k \in 1..Len(before) :
                            /\ IndexOfId(after, before[k].id) # 0
                            /\ before[k].id # setId } }

\* C10: whenever set evicts, the victim is the least recently used weighted
\* by access count: no victim was accessed later than an entry of the same
\* access count that stays cached, and no victim was accessed both later and
\* more often than an entry that stays cached.
C10_EvictsLeastRecentlyUsed ==
    [][ lastOp'.op = "set" =>
          \A v \in Evicted(Cache, Cache') :
             \A k \in Survivors(Cache, Cache', lastOp'.id) :
                /\ ~(v.accessCount = k.accessCount /\ v.lastAccessed > k.lastAccessed)
                /\ ~(v.accessCount > k.accessCount /\ v.lastAccessed > k.lastAccessed)
      ]_vars

\* C10, the part the code keeps: the size-bounded class evicts in that order.
C10_SizeBoundedEvictsLeastRecentlyUsed ==
    [][ (cacheClass = "size" /\ lastOp'.op = "set") =>
          \A v \in Evicted(sbCache, sbCache') :
             \A k \in Survivors(sbCache, sbCache', lastOp'.id) :
                /\ ~(v.accessCount = k.accessCount /\ v.lastAccessed > k.lastAccessed)
                /\ ~(v.accessCount > k.accessCount /\ v.lastAccessed > k.lastAccessed)
      ]_vars

\* C11: get(themeId) returns a miss or exactly what set stored last under
\* that themeId; it never returns anything for an id whose entry was
\* deleted or cleared since, and a get(id) right after set(id, ...) hits.
C11_GetReturnsLastStored ==
    /\ lastOp.op = "get" =>
          /\ lastOp.ret # <<>> => lastOp.ret = stored[lastOp.id]
          /\ stored[lastOp.id] = <<>> => lastOp.ret = <<>>
    /\ lastOp.op = "set" =>
          get_return(Cache, lastOp.id) = stored[lastOp.id]

\* C11 witness: a get that hit and returned "B" while another id was cached
\* with the value "A".
C11_Witness ==
    /\ lastOp.op = "get" /\ lastOp.ret = <<"B">>
    /\ \E i \in 1..Len(Cache) : Cache[i].id # lastOp.id /\ Cache[i].value = "A"


(***************************************************************************)
(* Tint, shade, alpha and opacity: ThemeParser.parseTint / parseShade /    *)
(* parseAlpha (src/src/parser/xml/ThemeParser.ts:208-226),                 *)
(* XMLParser.getOpacity (src/src/parser/xml/XMLParser.ts:246-252) and      *)
(* ThemeCache.applyTintShade (src/src/models/ThemeCache.ts:421-459).       *)
(*                                                                         *)
(* An attribute value is a text over AttrChars. A JavaScript number is a   *)
(* rational num/den or NaN.                                                *)
(***************************************************************************)
MaxAttrLen == 6
AttrChars == { "-", "0", "1", "5", "x" }
AttrTexts == SeqsUpTo(AttrChars, MaxAttrLen)

\* The element a decoding function is handed: none (undefined), or an
\* element whose attribute sits under the key '@attributes' ("grouped", what
\* ThemeParser reads) or under the prefixed key '@val' / '@alpha'
\* ("prefixed", what XMLParser.getAttribute reads and what the parser
\* options of XMLParser.ts:22-31 produce); hasAttr is FALSE for an element
\* without the attribute.
PctElements ==
    { [shape |-> "none", hasAttr |-> FALSE, text |-> <<>>] }
    \cup { [shape |-> sh, hasAttr |-> FALSE, text |-> <<>>] : sh \in { "grouped", "prefixed" } }
    \cup { [shape |-> sh, hasAttr |-> TRUE, text |-> t] :
             sh \in { "grouped", "prefixed" }, t \in AttrTexts }

NaN == [nan |-> TRUE, num |-> 0, den |-> 1]
Num(n) == [nan |-> FALSE, num |-> n, den |-> 1]
Ratio(n, d) == [nan |-> FALSE, num |-> n, den |-> d]

DigitValue(c) == CASE c = "0" -> 0 [] c = "1" -> 1 [] c = "5" -> 5 [] OTHER -> -1

\* The number of leading characters of a text that are digits.
RECURSIVE LeadingDigits(_)
LeadingDigits(t) ==
    IF t = <<>> \/ DigitValue(Head(t)) < 0 THEN 0 ELSE 1 + LeadingDigits(Tail(t))

\* The value of a text of digits in a radix.
RECURSIVE DigitsValue(_, _)
DigitsValue(t, radix) ==
    IF t = <<>> THEN 0
    ELSE DigitsValue(SubSeq(t, 1, Len(t) - 1), radix) * radix + DigitValue(t[Len(t)])

\* parseInt of an unsigned text: the leading digits, NaN without any. With
\* autoRadix (no radix argument) a 0x prefix selects radix 16.
parseIntUnsigned(t, autoRadix) ==
    IF autoRadix /\ Len(t) >= 2 /\ t[1] = "0" /\ t[2] = "x"
    THEN LET rest == SubSeq(t, 3, Len(t))
             k == LeadingDigits(rest)
         IN  IF k = 0 THEN NaN ELSE Num(DigitsValue(SubSeq(rest, 1, k), 16))
    ELSE LET k == LeadingDigits(t)
         IN  IF k = 0 THEN NaN ELSE Num(DigitsValue(SubSeq(t, 1, k), 10))

\* parseInt(text) and parseInt(text, 10): an optional sign, then digits.
parseInt(t, autoRadix) ==
    IF t # <<>> /\ t[1] = "-"
    THEN LET v == parseIntUnsigned(Tail(t), autoRadix)
         IN  IF v.nan THEN NaN ELSE Num(0 - v.num)
    ELSE parseIntUnsigned(t, autoRadix)

NumLeq(a, b) == a.num * b.den <= b.num * a.den
\* Math.min and Math.max: NaN if either argument is.
Math_min(a, b) == IF a.nan \/ b.nan THEN NaN ELSE IF NumLeq(a, b) THEN a ELSE b
Math_max(a, b) == IF a.nan \/ b.nan THEN NaN ELSE IF NumLeq(a, b) THEN b ELSE a
NumDiv(a, k) == IF a.nan THEN NaN ELSE Ratio(a.num, a.den * k)
NumAdd(a, b) ==
    IF a.nan \/ b.nan THEN NaN ELSE Ratio(a.num * b.den + b.num * a.den, a.den * b.den)

\* tintElement['@attributes']?.val || fallback: the text, or the fallback
\* when the attribute is not there or is the empty string.
GroupedVal(el, fallback) ==
    IF el.shape = "grouped" /\ el.hasAttr /\ el.text # <<>> THEN el.text ELSE fallback

\* ThemeParser.parseTint
parseTint(el) ==
    IF el.shape = "none" THEN Num(0)
    ELSE NumDiv(Math_max(Num(0), Math_min(Num(100), parseInt(GroupedVal(el, <<"0">>), TRUE))), 100)

\* ThemeParser.parseShade
parseShade(el) ==
    IF el.shape = "none" THEN Num(0)
    ELSE NumDiv(Math_max(Num(0), Math_min(Num(100), parseInt(GroupedVal(el, <<"0">>), TRUE))), 100)

\* ThemeParser.parseAlpha
parseAlpha(el) ==
    IF el.shape = "none" THEN Num(1)
    ELSE Math_max(Num(0), Math_min(Num(1),
             NumDiv(parseInt(GroupedVal(el, <<"1", "0", "0", "0", "0", "0">>), TRUE), 100000)))

\* XMLParser.getNumberAttribute(obj, name, defaultValue)
getNumberAttribute(el, defaultValue) ==
    IF ~(el.shape = "prefixed" /\ el.hasAttr) \/ el.text = <<>> THEN Num(defaultValue)
    ELSE LET n == parseInt(el.text, FALSE)
         IN  IF n.nan THEN Num(defaultValue) ELSE n

\* XMLParser.getOpacity
getOpacity(el) ==
    IF el.shape = "none" THEN Num(1)
    ELSE NumDiv(getNumberAttribute(el, 100000), 100000)

\* ThemeCache.applyTintShade(color, tint, shade) on an rgb colour: the tint
\* and shade fields of the ColorInfo it returns.
applyTintShade(color, tint, shade) ==
    [tint |-> NumAdd(color.tint, tint), shade |-> NumAdd(color.shade, shade)]

\* The tint and shade arguments applyTintShade is called with.
TintShadeArgs == { Num(0), Ratio(1, 2), Num(1) }

ParseTintCall ==
    /\ pctInput # <<>> /\ pctOut = <<>>
    /\ pctOut' = <<[op |-> "parseTint", value |-> parseTint(pctInput)]>>
    /\ UNCHANGED <<pctInput, colorTS>>
    /\ UNCHANGED notPct

ParseShadeCall ==
    /\ pctInput # <<>> /\ pctOut = <<>>
    /\ pctOut' = <<[op |-> "parseShade", value |-> parseShade(pctInput)]>>
    /\ UNCHANGED <<pctInput, colorTS>>
    /\ UNCHANGED notPct

ParseAlphaCall ==
    /\ pctInput # <<>> /\ pctOut = <<>>
    /\ pctOut' = <<[op |-> "parseAlpha", value |-> parseAlpha(pctInput)]>>
    /\ UNCHANGED <<pctInput, colorTS>>
    /\ UNCHANGED notPct

GetOpacityCall ==
    /\ pctInput # <<>> /\ pctOut = <<>>
    /\ pctOut' = <<[op |-> "getOpacity", value |-> getOpacity(pctInput)]>>
    /\ UNCHANGED <<pctInput, colorTS>>
    /\ UNCHANGED notPct

\* applyTintShade on the ColorInfo parseColorInfo built with the decoded
\* tint (ThemeParser.ts:126) and no shade.
ApplyTintShadeCall(tint, shade) ==
    /\ pctOut # <<>> /\ pctOut[1].op = "parseTint" /\ colorTS = <<>>
    /\ colorTS' = <<applyTintShade([tint |-> pctOut[1].value, shade |-> Num(0)], tint, shade)>>
    /\ UNCHANGED <<pctInput, pctOut>>
    /\ UNCHANGED notPct

PctInit ==
    /\ pctInput \in PctElements
    /\ pctOut = <<>>
    /\ colorTS = <<>>

NextPct ==
    \/ ParseTintCall
    \/ ParseShadeCall
    \/ ParseAlphaCall
    \/ GetOpacityCall
    \/ \E tint, shade \in TintShadeArgs : ApplyTintShadeCall(tint, shade)

InitPct == PctInit /\ DecodeUnused /\ ThemeUnused /\ CacheUnused /\ EmuUnused /\ MapUnused /\ IdsUnused /\ ValUnused /\ ColUnused /\ ScaleUnused /\ PassUnused /\ TwoUnused /\ WorkerUnused /\ MainUnused /\ DedupUnused

SpecPct == InitPct /\ [][NextPct]_vars

InUnitInterval(v) == ~v.nan /\ 0 <= v.num /\ v.num <= v.den

\* C12: every tint, shade, alpha and opacity value the decoder produces
\* lies in [0,1], whatever the attribute text: negative, above the 100%
\* encoding, or not a number.
C12_FractionsInUnitInterval ==
    /\ pctOut # <<>> => InUnitInterval(pctOut[1].value)
    /\ colorTS # <<>> => InUnitInterval(colorTS[1].tint) /\ InUnitInterval(colorTS[1].shade)

\* C12, the part the code keeps: parseTint, parseShade and parseAlpha stay in
\* [0,1] on every attribute text parseInt reads a number from, and
\* getOpacity on every text that encodes 0..100000.
C12_InRangeOnNumericText ==
    pctOut # <<>> =>
        LET r == pctOut[1]
            n == parseInt(pctInput.text, r.op # "getOpacity")
        IN  /\ (r.op # "getOpacity" /\ ~n.nan) => InUnitInterval(r.value)
            /\ (r.op = "getOpacity" /\ ~n.nan /\ 0 <= n.num /\ n.num <= 100000)
                  => InUnitInterval(r.value)

\* The attribute text is the decimal encoding of a value in 0..100000, in
\* the place the called function reads it from.
EncodedPercent ==
    /\ pctInput.hasAttr
    /\ pctInput.text # <<>>
    /\ LeadingDigits(pctInput.text) = Len(pctInput.text)
    /\ DigitsValue(pctInput.text, 10) <= 100000
    /\ pctInput.shape = IF pctOut[1].op = "getOpacity" THEN "prefixed" ELSE "grouped"

NumEq(a, b) ==
    /\ ~a.nan /\ ~b.nan
    /\ IF a.den = b.den THEN a.num = b.num ELSE a.num * b.den = b.num * a.den

\* C20: tint, shade and alpha are decoded on the scale 100000 = 100%: an
\* encoded value v in 0..100000 decodes to v/100000, identically for tint,
\* shade, alpha and opacity.
C20_PercentScale100000 ==
    (pctOut # <<>> /\ EncodedPercent) =>
        NumEq(pctOut[1].value, Ratio(DigitsValue(pctInput.text, 10), 100000))

\* C20, the part the code keeps: parseAlpha and getOpacity decode on the
\* scale 100000.
C20_AlphaScale100000 ==
    (pctOut # <<>> /\ EncodedPercent /\ pctOut[1].op \in { "parseAlpha", "getOpacity" }) =>
        NumEq(pctOut[1].value, Ratio(DigitsValue(pctInput.text, 10), 100000))

\* parseTint and parseShade decode on the scale 100 = 100%, cut off at 100.
TintShadeScale100 ==
    (pctOut # <<>> /\ EncodedPercent /\ pctOut[1].op \in { "parseTint", "parseShade" }) =>
        LET v == DigitsValue(pctInput.text, 10)
        IN  NumEq(pctOut[1].value, Ratio(IF v > 100 THEN 100 ELSE v, 100))

(***************************************************************************)
(* EMU and pixel conversion: emuToPixels / pixelsToEmu of                  *)
(* src/src/parser/utils.ts:11-21 (factor EMU_TO_PIXELS,                    *)
(* src/src/parser/types.ts:213) and of ModelUtils                          *)
(* (src/unnamed/part_004:27-39, EMU_PER_PIXEL).                            *)
(*                                                                         *)
(* The functions compute in floating point and round nothing to integers.  *)
(* A floating point value is a record [num, den, ulps]: the rational       *)
(* num/den (in lowest terms) the chain of operations would give in exact   *)
(* arithmetic, and the number of roundings on the way. Every rounding      *)
(* changes a value by a relative error of at most 1/RoundoffInv; binary64  *)
(* guarantees 2^-53, the model allows the coarser 2^-30, so that every     *)
(* result the program can compute is among those the model admits.         *)
(***************************************************************************)
MaxEmu == 40
\* EMU values: the small ones, values around one and around twenty pixels,
\* and a value that is no multiple of a pixel.
EmuValues == 0..MaxEmu \cup { 9524, 9525, 9526, 190499, 190500, 190501, 200000 }

EMU_PER_PIXEL == 9525
RoundoffInv == 2^30

RECURSIVE Gcd(_, _)
Gcd(a, b) == IF b = 0 THEN a ELSE Gcd(b, a % b)

\* The floating point value num/den after the given number of roundings.
Flt(num, den, ulps) ==
    LET g == Gcd(num, den)
    IN  [num |-> num \div g, den |-> den \div g, ulps |-> ulps]

\* a * b: the exact product, rounded once.
FltMul(a, b) ==
    LET g1 == Gcd(a.num, b.den)
        g2 == Gcd(b.num, a.den)
    IN  Flt((a.num \div g1) * (b.num \div g2), (a.den \div g2) * (b.den \div g1),
            a.ulps + b.ulps + 1)

\* a / b: the exact quotient, rounded once.
FltDiv(a, b) == FltMul(a, [num |-> b.den, den |-> b.num, ulps |-> b.ulps])

\* 96 / 914400, a rounded quotient.
EMU_TO_PIXELS == Flt(96, 914400, 1)

\* emuToPixels rounding to whole pixels.
emuToPixels_rounded(emu) == Flt((2 * emu + EMU_PER_PIXEL) \div (2 * EMU_PER_PIXEL), 1, 0)

\* utils.ts: emu * EMU_TO_PIXELS
emuToPixels(emu) == FltMul(Flt(emu, 1, 0), EMU_TO_PIXELS)

\* utils.ts: pixels / EMU_TO_PIXELS
pixelsToEmu(pixels) == FltDiv(pixels, EMU_TO_PIXELS)

\* ModelUtils: emu / EMU_PER_PIXEL
ModelUtils_emuToPixels(emu) == FltDiv(Flt(emu, 1, 0), Flt(EMU_PER_PIXEL, 1, 0))

\* ModelUtils: pixels * EMU_PER_PIXEL
ModelUtils_pixelsToEmu(pixels) == FltMul(pixels, Flt(EMU_PER_PIXEL, 1, 0))

EmuToPixelsCall ==
    /\ emuPixels = <<>>
    /\ emuPixels' = <<[impl |-> "utils", value |-> emuToPixels(emuIn)]>>
    /\ UNCHANGED <<emuIn, emuBack>>
    /\ UNCHANGED notEmu

PixelsToEmuCall ==
    /\ emuPixels # <<>> /\ emuPixels[1].impl = "utils" /\ emuBack = <<>>
    /\ emuBack' = <<pixelsToEmu(emuPixels[1].value)>>
    /\ UNCHANGED <<emuIn, emuPixels>>
    /\ UNCHANGED notEmu

ModelUtils_EmuToPixelsCall ==
    /\ emuPixels = <<>>
    /\ emuPixels' = <<[impl |-> "ModelUtils", value |-> ModelUtils_emuToPixels(emuIn)]>>
    /\ UNCHANGED <<emuIn, emuBack>>
    /\ UNCHANGED notEmu

ModelUtils_PixelsToEmuCall ==
    /\ emuPixels # <<>> /\ emuPixels[1].impl = "ModelUtils" /\ emuBack = <<>>
    /\ emuBack' = <<ModelUtils_pixelsToEmu(emuPixels[1].value)>>
    /\ UNCHANGED <<emuIn, emuPixels>>
    /\ UNCHANGED notEmu

EmuInit ==
    /\ emuIn \in EmuValues
    /\ emuPixels = <<>>
    /\ emuBack = <<>>

NextEmu ==
    \/ EmuToPixelsCall
    \/ PixelsToEmuCall
    \/ ModelUtils_EmuToPixelsCall
    \/ ModelUtils_PixelsToEmuCall

InitEmu == EmuInit /\ DecodeUnused /\ ThemeUnused /\ CacheUnused /\ PctUnused /\ MapUnused /\ IdsUnused /\ ValUnused /\ ColUnused /\ ScaleUnused /\ PassUnused /\ TwoUnused /\ WorkerUnused /\ MainUnused /\ DedupUnused

SpecEmu == InitEmu /\ [][NextEmu]_vars

Abs(n) == IF n < 0 THEN 0 - n ELSE n
CeilDiv(a, b) == (a + b - 1) \div b

\* Every number within the rounding error of the value v is within 1 of the
\* integer n: |v - n| + |v| * (ulps + 1) / RoundoffInv <= 1, where
\* (ulps + 1) / RoundoffInv bounds the relative error of ulps roundings.
WithinOne(v, n) ==
    LET d == Abs(v.num - n * v.den)
    IN  /\ d <= v.den
        /\ CeilDiv(v.num * (v.ulps + 1), RoundoffInv) <= v.den - d

MaxElements == 2
MaxGroupChildren == 1

LeafNodes ==
    { [kind |-> "sp", ok |-> ok, txBody |-> tx, children |-> <<>>, childrenAt |-> "none"] :
          ok \in BOOLEAN, tx \in BOOLEAN }
    \cup { [kind |-> "pic", ok |-> ok, txBody |-> FALSE, children |-> <<>>,
            childrenAt |-> "none"] : ok \in BOOLEAN }

GroupNodes ==
    { [kind |-> "grpSp", ok |-> TRUE, txBody |-> FALSE, children |-> c, childrenAt |-> at] :
          c \in SeqsUpTo(LeafNodes, MaxGroupChildren) \ { <<>> },
          at \in { "grpSp", "spTree" } }
    \cup { [kind |-> "grpSp", ok |-> ok, txBody |-> FALSE, children |-> <<>>,
            childrenAt |-> "none"] : ok \in BOOLEAN }

ShapeTrees == SeqsUpTo(LeafNodes \cup GroupNodes, MaxElements)

\* ImportSettings: importText, importShapes, importImages.
ImportFlagSettings ==
    [importText : BOOLEAN, importShapes : BOOLEAN, importImages : BOOLEAN]

Element(type, src, children) == [type |-> type, src |-> src, children |-> children]

\* XMLParser.getChildren(spTree, tag): the positions of the nodes of a tag.
getChildren(nodes, tag) ==
    SelectSeq(IndexSeq(Len(nodes)), LAMBDA i : nodes[i].kind = tag)

RECURSIVE SlideParser_parseShapeTree(_, _)
RECURSIVE SlideParser_parseNodes(_, _, _)

\* parseShape / parseTextShape, parsePicture, parseGroup: <<>> for null.
\* parseGroup takes the children of the group from getChild(grpSp, 'p:spTree').
SlideParser_parseNode(node, path) ==
    IF ~node.ok THEN <<>>
    ELSE CASE node.kind = "sp" ->
                <<Element(IF node.txBody THEN "text" ELSE "shape", path, <<>>)>>
           [] node.kind = "pic" -> <<Element("image", path, <<>>)>>
           [] node.kind = "grpSp" ->
                <<Element("group", path,
                          IF node.childrenAt = "spTree"
                          THEN SlideParser_parseShapeTree(node.children, path)
                          ELSE <<>>)>>

\* One loop of parseShapeTree: the elements of the nodes at the positions.
SlideParser_parseNodes(nodes, positions, path) ==
    IF positions = <<>> THEN <<>>
    ELSE SlideParser_parseNode(nodes[Head(positions)], Append(path, Head(positions)))
         \o SlideParser_parseNodes(nodes, Tail(positions), path)

\* parseShapeTree: the shapes, then the groups, then the pictures.
SlideParser_parseShapeTree(nodes, path) ==
    SlideParser_parseNodes(nodes, getChildren(nodes, "sp"), path)
    \o SlideParser_parseNodes(nodes, getChildren(nodes, "grpSp"), path)
    \o SlideParser_parseNodes(nodes, getChildren(nodes, "pic"), path)

\* ElementMapper.mapShape: ModelFactories.createShapeElement(position, size,
\* shapeType, overrides) is called with one object, shapeType is undefined
\* and shapeType.charAt throws; the catch returns null.
ElementMapper_mapShape(node, path) == <<>>

\* ElementMapper.mapImage
ElementMapper_mapImage(node, path) ==
    IF node.ok THEN <<Element("image", path, <<>>)>> ELSE <<>>

\* ElementMapper.mapGroup: every child goes through mapSlideElements([child]),
\* an array has no shapes, groups or images, so no child is mapped.
ElementMapper_mapGroup(node, path) ==
    IF node.ok THEN <<Element("group", path, <<>>)>> ELSE <<>>

ElementMapper_mapNode(node, path) ==
    CASE node.kind = "sp" -> ElementMapper_mapShape(node, path)
      [] node.kind = "grpSp" -> ElementMapper_mapGroup(node, path)
      [] node.kind = "pic" -> ElementMapper_mapImage(node, path)

RECURSIVE ElementMapper_mapNodes(_, _)
ElementMapper_mapNodes(nodes, positions) ==
    IF positions = <<>> THEN <<>>
    ELSE ElementMapper_mapNode(nodes[Head(positions)], <<Head(positions)>>)
         \o ElementMapper_mapNodes(nodes, Tail(positions))

\* ElementMapper.mapSlideElements over slideData.shapes, .groups, .images.
ElementMapper_mapSlideElements(nodes) ==
    ElementMapper_mapNodes(nodes, getChildren(nodes, "sp"))
    \o ElementMapper_mapNodes(nodes, getChildren(nodes, "grpSp"))
    \o ElementMapper_mapNodes(nodes, getChildren(nodes, "pic"))

MappingResult(via, elements, warns, errs) ==
    [via |-> via, elements |-> elements, warnings |-> warns, errors |-> errs]

\* SlideParser.parseElements, as PPTXParser.parseSlide runs it on behalf of
\* handleParse, which reads fileData and fileName from the message and not
\* its settings. No element failure reaches state.warnings.
SlideParser_parseElements ==
    /\ mapResult = <<>>
    /\ mapResult' = <<MappingResult("SlideParser",
                                    SlideParser_parseShapeTree(mapTree, <<>>), <<>>, <<>>)>>
    /\ UNCHANGED <<mapSettings, mapTree>>
    /\ UNCHANGED notMap

\* ElementMapper.mapSlideElements on the slide data of the tree.
ElementMapper_mapSlideElementsCall ==
    /\ mapResult = <<>>
    /\ mapResult' = <<MappingResult("mapSlideElements",
                                    ElementMapper_mapSlideElements(mapTree), <<>>, <<>>)>>
    /\ UNCHANGED <<mapSettings, mapTree>>
    /\ UNCHANGED notMap

\* ElementMapper.mapSlide: XMLParser has no parseSlide method, the call
\* throws, and the catch files the message under errors.
ElementMapper_mapSlide ==
    /\ mapResult = <<>>
    /\ mapResult' = <<MappingResult("mapSlide", <<>>, <<>>, <<"mapSlide">>)>>
    /\ UNCHANGED <<mapSettings, mapTree>>
    /\ UNCHANGED notMap

\* CoreParser.parseShapes over spTree['p:sp']: one element per shape, in
\* order, when the shapes are an array (two or more), none otherwise. The
\* groups and the pictures of the tree are not read.
CoreParser_parseShapes(nodes) ==
    LET positions == getChildren(nodes, "sp")
    IN  IF Len(positions) >= 2
        THEN [k \in 1..Len(positions) |-> Element("shape", <<positions[k]>>, <<>>)]
        ELSE <<>>

\* CoreParser.parseSlide, which PPTXAdapter.parseSlideFiles runs.
CoreParser_parseSlide ==
    /\ mapResult = <<>>
    /\ mapResult' = <<MappingResult("CoreParser", CoreParser_parseShapes(mapTree),
                                    <<>>, <<>>)>>
    /\ UNCHANGED <<mapSettings, mapTree>>
    /\ UNCHANGED notMap

MapInit ==
    /\ mapSettings \in ImportFlagSettings
    /\ mapTree \in ShapeTrees
    /\ mapResult = <<>>

NextMap ==
    \/ SlideParser_parseElements
    \/ ElementMapper_mapSlideElementsCall
    \/ ElementMapper_mapSlide
    \/ CoreParser_parseSlide

InitMap == MapInit /\ DecodeUnused /\ ThemeUnused /\ CacheUnused /\ PctUnused /\ EmuUnused /\ IdsUnused /\ ValUnused /\ ColUnused /\ ScaleUnused /\ PassUnused /\ TwoUnused /\ WorkerUnused /\ MainUnused /\ DedupUnused

SpecMap == InitMap /\ [][NextMap]_vars

\* The paths of the nodes that fail, and of those that do not, below parents
\* that do not fail.
FailedPaths ==
    { <<i>> : i \in { k \in 1..Len(mapTree) : ~mapTree[k].ok } }
    \cup UNION { { <<i, j>> : j \in { k \in 1..Len(mapTree[i].children) :
                                        ~mapTree[i].children[k].ok } } :
                 i \in { k \in 1..Len(mapTree) : mapTree[k].ok } }
OkPaths ==
    { <<i>> : i \in { k \in 1..Len(mapTree) : mapTree[k].ok } }
    \cup UNION { { <<i, j>> : j \in { k \in 1..Len(mapTree[i].children) :
                                        mapTree[i].children[k].ok } } :
                 i \in { k \in 1..Len(mapTree) : mapTree[k].ok } }

\* The elements of a result, at any depth.
AllElements(elements) ==
    Range(elements) \cup UNION { Range(e.children) : e \in Range(elements) }
Srcs(elements) == { e.src : e \in AllElements(elements) }

\* C14: when one shape, picture or group fails, that element alone is
\* omitted, every element that maps successfully is present, the slide is
\* kept, and the warnings name the slide and the failed element.
C14_ElementFailureOmitsAndWarns ==
    (mapResult # <<>> /\ FailedPaths # {}) =>
        /\ Srcs(mapResult[1].elements) = OkPaths
        /\ mapResult[1].errors = <<>>
        /\ \A f \in FailedPaths :
              \E k \in 1..Len(mapResult[1].warnings) : mapResult[1].warnings[k].element = f

\* C14, the part the code keeps: in SlideParser.parseElements a failing
\* element is omitted alone and the slide is kept, for a tree whose groups
\* hold their children below a p:spTree element.
C14_SlideParserOmitsFailedOnly ==
    (mapResult # <<>> /\ mapResult[1].via = "SlideParser"
       /\ \A i \in 1..Len(mapTree) : mapTree[i].childrenAt # "grpSp") =>
        /\ Srcs(mapResult[1].elements) = OkPaths
        /\ mapResult[1].errors = <<>>

Types(elements) == { e.type : e \in AllElements(elements) }

\* C17: the import-settings booleans gate the output: no image element at
\* any depth when importImages is false, no shape element when importShapes
\* is false, no text element when importText is false.
C17_SettingsGateElementKinds ==
    mapResult # <<>> =>
        /\ ~mapSettings.importImages => "image" \notin Types(mapResult[1].elements)
        /\ ~mapSettings.importShapes => "shape" \notin Types(mapResult[1].elements)
        /\ ~mapSettings.importText => "text" \notin Types(mapResult[1].elements)

(***************************************************************************)
(* The slide count of a successful decode (SpecDecode)                     *)
(***************************************************************************)
\* A warning about the slides of the decode: the failure of a slide part, or
\* a difference between the declared and the decoded number of slides.
SlideCountWarning(w) == w.kind \in { "slide", "slideCount" }

\* C15: at completion of every successful decode, presentation.slideCount
\* equals the number of slides in the result, or else the warnings of the
\* result hold an entry about the slides that accounts for the difference.
C15_SlideCountMatchesOrWarns ==
    (Done /\ Res.success) =>
        \/ Res.data.presentation.slideCount = Len(Res.data.slides)
        \/ \E k \in 1..Len(Res.warnings) : SlideCountWarning(Res.warnings[k])

\* C15, what the code does: slideCount is computed from presentation.xml
\* alone and the slides from the slide files alone.
C15_SlideCountFromPresentationOnly ==
    (Done /\ Res.success) =>
        /\ Res.data.presentation.slideCount =
               IF impl = "PPTXParser" THEN PresentationParser_parse(sldIds).slideCount
               ELSE CoreParser_parsePresentation(sldIds).slideCount
        /\ Len(Res.data.slides) <= Len(slideFiles)

(***************************************************************************)
(* The ids of a decode: PPTXParser.parseMasterSlide / parseTheme /         *)
(* parseMediaFile (src/src/parser/PPTXParser.ts:324-367) take them from    *)
(* generateId (src/src/parser/utils.ts:152-154), the elements of a slide   *)
(* from ModelFactories (src/src/models/factories.ts:143-235). The same     *)
(* byte buffer is decoded twice; Math.random() and Date.now() are inputs   *)
(* of every call that reads them.                                          *)
(***************************************************************************)
MaxIdParts == 1
MaxIdClock == 1
MaxDecodes == 2

\* What Math.random() may return.
RandomValues == { "r1", "r2" }

\* The byte buffer: the number of shapes on its slide and of its master,
\* theme and media parts.
IdPackages ==
    [shapes : 0..MaxIdParts, masters : 0..MaxIdParts, themes : 0..MaxIdParts,
     media : 0..MaxIdParts]

\* generateId(): Math.random().toString(36).substr(2, 9), a text of the draw.
generateId(random) == <<"id", random>>

\* ModelFactories.createShapeElement: id `shape-${Date.now()}-${Math.random()}`.
createShapeElement_id(time, random) == <<"shape", time, random>>

\* SlideParser.parse: the id attribute of p:sld or `slide-${slideNumber}`.
SlideParser_slideId(slideNumber) == <<"slide", slideNumber>>

EmptyDecode ==
    [slideId |-> SlideParser_slideId(1), elements |-> <<>>, masters |-> <<>>,
     themes |-> <<>>, media |-> <<>>]

\* SlideParser.parseShape for the next shape of the slide.
SlideParser_parseShape ==
    /\ Len(idResults) < MaxDecodes
    /\ Len(idCurrent.elements) < idPackage.shapes
    /\ \E time \in idNow..MaxIdClock, random \in RandomValues :
          /\ idNow' = time
          /\ idCurrent' = [idCurrent EXCEPT !.elements =
                               Append(@, createShapeElement_id(time, random))]
    /\ UNCHANGED <<idPackage, idResults>>
    /\ UNCHANGED notIds

PPTXParser_parseMasterSlide ==
    /\ Len(idResults) < MaxDecodes
    /\ Len(idCurrent.elements) = idPackage.shapes
    /\ Len(idCurrent.masters) < idPackage.masters
    /\ \E random \in RandomValues :
          idCurrent' = [idCurrent EXCEPT !.masters = Append(@, generateId(random))]
    /\ UNCHANGED <<idPackage, idResults, idNow>>
    /\ UNCHANGED notIds

PPTXParser_parseTheme ==
    /\ Len(idResults) < MaxDecodes
    /\ Len(idCurrent.elements) = idPackage.shapes
    /\ Len(idCurrent.masters) = idPackage.masters
    /\ Len(idCurrent.themes) < idPackage.themes
    /\ \E random \in RandomValues :
          idCurrent' = [idCurrent EXCEPT !.themes = Append(@, generateId(random))]
    /\ UNCHANGED <<idPackage, idResults, idNow>>
    /\ UNCHANGED notIds

PPTXParser_parseMediaFile ==
    /\ Len(idResults) < MaxDecodes
    /\ Len(idCurrent.elements) = idPackage.shapes
    /\ Len(idCurrent.masters) = idPackage.masters
    /\ Len(idCurrent.themes) = idPackage.themes
    /\ Len(idCurrent.media) < idPackage.media
    /\ \E random \in RandomValues :
          idCurrent' = [idCurrent EXCEPT !.media = Append(@, generateId(random))]
    /\ UNCHANGED <<idPackage, idResults, idNow>>
    /\ UNCHANGED notIds

\* The return of PPTXParser.parse; the next decode of the buffer starts
\* from nothing, on the same or on a fresh instance.
PPTXParser_parseReturn ==
    /\ Len(idResults) < MaxDecodes
    /\ Len(idCurrent.elements) = idPackage.shapes
    /\ Len(idCurrent.masters) = idPackage.masters
    /\ Len(idCurrent.themes) = idPackage.themes
    /\ Len(idCurrent.media) = idPackage.media
    /\ idResults' = Append(idResults, idCurrent)
    /\ idCurrent' = EmptyDecode
    /\ UNCHANGED <<idPackage, idNow>>
    /\ UNCHANGED notIds

IdsInit ==
    /\ idPackage \in IdPackages
    /\ idCurrent = EmptyDecode
    /\ idResults = <<>>
    /\ idNow = 0

NextIds ==
    \/ SlideParser_parseShape
    \/ PPTXParser_parseMasterSlide
    \/ PPTXParser_parseTheme
    \/ PPTXParser_parseMediaFile
    \/ PPTXParser_parseReturn

InitIds == IdsInit /\ DecodeUnused /\ ThemeUnused /\ CacheUnused /\ PctUnused /\ EmuUnused /\ MapUnused /\ ValUnused /\ ColUnused /\ ScaleUnused /\ PassUnused /\ TwoUnused /\ WorkerUnused /\ MainUnused /\ DedupUnused

SpecIds == InitIds /\ [][NextIds]_vars

\* C16: two decodes of the same byte buffer return the same data: the same
\* slides, element ids, master and theme ids and media ids.
C16_RepeatedDecodeIdentical ==
    Len(idResults) = MaxDecodes => idResults[1] = idResults[2]

\* C16, the part the code keeps: the two decodes agree on the slide id and
\* on the number of elements, masters, themes and media.
C16_RepeatedDecodeSameShape ==
    Len(idResults) = MaxDecodes =>
        /\ idResults[1].slideId = idResults[2].slideId
        /\ \A f \in { "elements", "masters", "themes", "media" } :
              Len(idResults[1][f]) = Len(idResults[2][f])

(***************************************************************************)
(* Validation of the messages of the UI (src/src/shared/validation.ts):    *)
(* validateImportSettings (49-71), validateUIMessage (74-99),              *)
(* validateImportPPTXMessage (102-123), getSlideDimensions (184-198).      *)
(* An optional value is <<>> when it is unset and <<v>> when it is v.      *)
(***************************************************************************)
MinCustom == 100
MaxCustom == 4000
MaxOffset == 1

\* The numbers a custom dimension is tried with: around both limits, halves
\* of a pixel next to them, zero, a negative number and NaN.
DimNumbers ==
    { Num(MinCustom - d) : d \in 0..MaxOffset } \cup { Num(MinCustom + d) : d \in 0..MaxOffset }
    \cup { Num(MaxCustom - d) : d \in 0..MaxOffset }
    \cup { Num(MaxCustom + d) : d \in 0..MaxOffset }
    \cup { Ratio(2 * MinCustom - 1, 2), Ratio(2 * MaxCustom + 1, 2), Num(0), Num(-1), NaN }
DimValues == { <<>> } \cup { <<v>> : v \in DimNumbers }

\* ImportSettings
ImportSettingsValues ==
    [slideSize : { "1920x1080", "1280x720", "custom" },
     customWidth : DimValues, customHeight : DimValues,
     importText : BOOLEAN, importShapes : BOOLEAN, importImages : BOOLEAN]

\* !v for an optional number: true when v is unset, 0 or NaN.
Not(v) == v = <<>> \/ v[1].nan \/ v[1].num = 0
\* v < n and v > n for a number v and an integer n: false when v is NaN.
Less(v, n) == ~v.nan /\ v.num < n * v.den
Greater(v, n) == ~v.nan /\ v.num > n * v.den

\* validateImportSettings without the test against the lower limit.
validateImportSettings_upperOnly(settings) ==
    LET widthErr == IF settings.slideSize = "custom"
                       /\ (Not(settings.customWidth)
                           \/ Greater(settings.customWidth[1], MaxCustom))
                    THEN <<"width">> ELSE <<>>
        heightErr == IF settings.slideSize = "custom"
                        /\ (Not(settings.customHeight)
                            \/ Greater(settings.customHeight[1], MaxCustom))
                     THEN <<"height">> ELSE <<>>
        kindErr == IF ~settings.importText /\ ~settings.importShapes
                      /\ ~settings.importImages
                   THEN <<"nothing to import">> ELSE <<>>
        errs == widthErr \o heightErr \o kindErr
    IN  [isValid |-> Len(errs) = 0, errors |-> errs]

\* validateImportSettings
validateImportSettings(settings) ==
    LET widthErr == IF settings.slideSize = "custom"
                       /\ (Not(settings.customWidth)
                           \/ Less(settings.customWidth[1], MinCustom)
                           \/ Greater(settings.customWidth[1], MaxCustom))
                    THEN <<"width">> ELSE <<>>
        heightErr == IF settings.slideSize = "custom"
                        /\ (Not(settings.customHeight)
                            \/ Less(settings.customHeight[1], MinCustom)
                            \/ Greater(settings.customHeight[1], MaxCustom))
                     THEN <<"height">> ELSE <<>>
        kindErr == IF ~settings.importText /\ ~settings.importShapes
                      /\ ~settings.importImages
                   THEN <<"nothing to import">> ELSE <<>>
        errs == widthErr \o heightErr \o kindErr
    IN  [isValid |-> Len(errs) = 0, errors |-> errs]

\* The payload of an import-pptx message: fileName a text, fileData an
\* ArrayBuffer or not, settings unset or an object.
ImportPayloads ==
    [fileName : { "", "deck.pptx" }, fileData : { "ArrayBuffer", "string" },
     settings : { <<>> } \cup { <<st>> : st \in ImportSettingsValues }]

\* The payload of an update-progress message.
ProgressPayloads ==
    [progress : { Num(-1), Num(0), Num(100), Num(101) }, currentStep : { "", "step" }]

\* The messages: null, or an object with a type and an optional payload.
UIMessages ==
    { <<>> }
    \cup { <<[type |-> t, payload |-> <<>>]>> :
              t \in { "", "import-pptx", "cancel", "update-progress", "import-started" } }
    \cup { <<[type |-> "import-pptx", payload |-> <<pl>>]>> : pl \in ImportPayloads }
    \cup { <<[type |-> "update-progress", payload |-> <<pl>>]>> : pl \in ProgressPayloads }

\* validateImportPPTXMessage
validateImportPPTXMessage(message) ==
    IF message.payload = <<>> THEN FALSE
    ELSE LET payload == message.payload[1]
         IN  IF payload.fileName = "" THEN FALSE
             ELSE IF payload.fileData # "ArrayBuffer" THEN FALSE
             ELSE IF payload.settings = <<>> THEN FALSE
             ELSE validateImportSettings(payload.settings[1]).isValid

\* validateUpdateProgressMessage
validateUpdateProgressMessage(message) ==
    IF message.payload = <<>> THEN FALSE
    ELSE LET payload == message.payload[1]
         IN  IF Less(payload.progress, 0) \/ Greater(payload.progress, 100) THEN FALSE
             ELSE payload.currentStep # ""

\* validateUIMessage
validateUIMessage(message) ==
    IF message = <<>> THEN FALSE
    ELSE IF message[1].type = "" THEN FALSE
    ELSE IF message[1].type \notin { "import-pptx", "cancel", "update-progress" } THEN FALSE
    ELSE CASE message[1].type = "import-pptx" -> validateImportPPTXMessage(message[1])
           [] message[1].type = "update-progress" -> validateUpdateProgressMessage(message[1])
           [] message[1].type = "cancel" -> TRUE

\* getSlideDimensions
getSlideDimensions(settings) ==
    CASE settings.slideSize = "1920x1080" -> [width |-> Num(1920), height |-> Num(1080)]
      [] settings.slideSize = "1280x720" -> [width |-> Num(1280), height |-> Num(720)]
      [] settings.slideSize = "custom" ->
           [width |-> IF Not(settings.customWidth) THEN Num(1920)
                      ELSE settings.customWidth[1],
            height |-> IF Not(settings.customHeight) THEN Num(1080)
                       ELSE settings.customHeight[1]]

\* The settings an import-pptx message carries, <<>> when it carries none.
SettingsOf(message) ==
    IF message = <<>> \/ message[1].type # "import-pptx" \/ message[1].payload = <<>>
    THEN <<>>
    ELSE message[1].payload[1].settings

ValidateImportSettingsCall ==
    /\ valOut = <<>>
    /\ SettingsOf(valMessage) # <<>>
    /\ valOut' = <<[op |-> "validateImportSettings",
                    value |-> validateImportSettings(SettingsOf(valMessage)[1])]>>
    /\ UNCHANGED valMessage
    /\ UNCHANGED notVal

ValidateUIMessageCall ==
    /\ valOut = <<>>
    /\ valOut' = <<[op |-> "validateUIMessage", value |-> validateUIMessage(valMessage)]>>
    /\ UNCHANGED valMessage
    /\ UNCHANGED notVal

GetSlideDimensionsCall ==
    /\ valOut = <<>>
    /\ SettingsOf(valMessage) # <<>>
    /\ valOut' = <<[op |-> "getSlideDimensions",
                    value |-> getSlideDimensions(SettingsOf(valMessage)[1])]>>
    /\ UNCHANGED valMessage
    /\ UNCHANGED notVal

ValInit ==
    /\ valMessage \in UIMessages
    /\ valOut = <<>>

NextVal ==
    \/ ValidateImportSettingsCall
    \/ ValidateUIMessageCall
    \/ GetSlideDimensionsCall

InitVal == ValInit /\ DecodeUnused /\ ThemeUnused /\ CacheUnused /\ PctUnused /\ EmuUnused /\ MapUnused /\ IdsUnused /\ ColUnused /\ ScaleUnused /\ PassUnused /\ TwoUnused /\ WorkerUnused /\ MainUnused /\ DedupUnused

SpecVal == InitVal /\ [][NextVal]_vars

\* A custom dimension that is set and lies in MinCustom..MaxCustom.
DimInRange(v) ==
    /\ v # <<>>
    /\ ~v[1].nan
    /\ MinCustom * v[1].den <= v[1].num
    /\ v[1].num <= MaxCustom * v[1].den

\* C18: validateImportSettings rejects every custom settings value whose
\* customWidth or customHeight is unset or outside 100..4000, accepts custom
\* settings with both dimensions in the range when at least one of
\* importText, importShapes, importImages is true, and validateUIMessage
\* rejects an import-pptx message carrying rejected settings.
C18_CustomSizeValidated ==
    /\ (valOut # <<>> /\ valOut[1].op = "validateImportSettings") =>
          LET st == SettingsOf(valMessage)[1]
          IN  /\ (st.slideSize = "custom"
                   /\ (~DimInRange(st.customWidth) \/ ~DimInRange(st.customHeight)))
                     => ~valOut[1].value.isValid
              /\ (st.slideSize = "custom"
                   /\ DimInRange(st.customWidth) /\ DimInRange(st.customHeight)
                   /\ (st.importText \/ st.importShapes \/ st.importImages))
                     => valOut[1].value.isValid
    /\ (valOut # <<>> /\ valOut[1].op = "validateUIMessage"
          /\ SettingsOf(valMessage) # <<>>
          /\ ~validateImportSettings(SettingsOf(valMessage)[1]).isValid)
            => valOut[1].value = FALSE

\* validateImportSettings has rejected custom settings for a width just
\* below the lower limit alone.
C18_Witness ==
    /\ valOut # <<>> /\ valOut[1].op = "validateImportSettings"
    /\ SettingsOf(valMessage)[1].slideSize = "custom"
    /\ SettingsOf(valMessage)[1].customWidth = <<Ratio(2 * MinCustom - 1, 2)>>
    /\ valOut[1].value.errors = <<"width">>

(***************************************************************************)
(* Decoding of a colour node: XMLParser.getColor                           *)
(* (src/src/parser/xml/XMLParser.ts:134-160), ThemeParser.parseColorInfo   *)
(* (src/src/parser/xml/ThemeParser.ts:119-162) and parseThemeColor         *)
(* (src/src/parser/utils.ts:49-76). A node is [srgbClr, schemeClr, sysClr];*)
(* a child is <<>> when the node has no such element, <<[val |-> <<>>]>>   *)
(* for an element without the val attribute and <<[val |-> <<v>>]>> for an *)
(* element whose val is v, each under the key and in the attribute form    *)
(* the decoder reads. An                                                   *)
(* RGB literal is given as the three bytes its hexadecimal digits denote.  *)
(***************************************************************************)
RgbLiterals == { <<255, 0, 0>>, <<0, 0, 0>> }
SchemeNames == { "accent1", "phClr" }
SystemNames == { "window", "windowText" }

ColorChildren(vals) ==
    { <<>>, <<[val |-> <<>>]>> } \cup { <<[val |-> <<v>>]>> : v \in vals }

ColorNodes ==
    [srgbClr : ColorChildren(RgbLiterals), schemeClr : ColorChildren(SchemeNames),
     sysClr : ColorChildren(SystemNames)]

\* getAttribute(child, 'val') returns something truthy.
HasVal(child) == child # <<>> /\ child[1].val # <<>>

\* A colour with components r, g, b given as fractions.
Rgb(r, g, b) == [r |-> r, g |-> g, b |-> b]

\* ModelUtils.hexToRGB: each pair of digits over 255.
hexToRGB(hex) == Rgb(Ratio(hex[1], 255), Ratio(hex[2], 255), Ratio(hex[3], 255))

\* XMLParser.getSchemeColor: the table, black for a name not in it.
getSchemeColor(schemeName) ==
    IF schemeName = "accent1" THEN Rgb(Ratio(2, 10), Ratio(4, 10), Ratio(8, 10))
    ELSE Rgb(Num(0), Num(0), Num(0))

\* XMLParser.getSystemColor
getSystemColor(sysName) ==
    CASE sysName = "window" -> Rgb(Ratio(95, 100), Ratio(95, 100), Ratio(95, 100))
      [] sysName = "windowText" -> Rgb(Num(0), Num(0), Num(0))
      [] OTHER -> Rgb(Num(0), Num(0), Num(0))

\* What a decoder returns: the branch that produced the result ("none" for
\* undefined or null, "throws" for an exception) and the colour.
ColorResult(via, value) == [via |-> via, value |-> value]

\* XMLParser.getColor
XMLParser_getColor(obj) ==
    IF obj = <<>> THEN ColorResult("none", <<>>)
    ELSE IF HasVal(obj[1].srgbClr)
         THEN ColorResult("srgbClr", <<hexToRGB(obj[1].srgbClr[1].val[1])>>)
    ELSE IF HasVal(obj[1].schemeClr)
         THEN ColorResult("schemeClr", <<getSchemeColor(obj[1].schemeClr[1].val[1])>>)
    ELSE IF HasVal(obj[1].sysClr)
         THEN ColorResult("sysClr", <<getSystemColor(obj[1].sysClr[1].val[1])>>)
    ELSE ColorResult("none", <<>>)

\* val || fallback
ValOr(child, fallback) == IF HasVal(child) THEN child[1].val[1] ELSE fallback

\* ColorInfo
ColorInfo(type, value, tint, shade, alpha) ==
    [type |-> type, value |-> value, tint |-> tint, shade |-> shade, alpha |-> alpha]

NoElement == [shape |-> "none", hasAttr |-> FALSE, text |-> <<>>]

\* ThemeParser.parseColorInfo, for children that carry no a:tint, a:shade or
\* a:alpha.
ThemeParser_parseColorInfo(colorElement) ==
    IF colorElement.srgbClr # <<>>
    THEN ColorResult("srgbClr",
             <<ColorInfo("rgb", ValOr(colorElement.srgbClr, <<0, 0, 0>>),
                         parseTint(NoElement), parseShade(NoElement), parseAlpha(NoElement))>>)
    ELSE IF colorElement.schemeClr # <<>>
    THEN ColorResult("schemeClr",
             <<ColorInfo("scheme", ValOr(colorElement.schemeClr, "dk1"),
                         parseTint(NoElement), parseShade(NoElement), parseAlpha(NoElement))>>)
    ELSE IF colorElement.sysClr # <<>>
    THEN ColorResult("sysClr",
             <<ColorInfo("system", ValOr(colorElement.sysClr, "window"),
                         parseTint(NoElement), parseShade(NoElement), parseAlpha(NoElement))>>)
    ELSE ColorResult("default", <<ColorInfo("rgb", <<0, 0, 0>>, Num(0), Num(0), Num(1))>>)

\* parseThemeColor: hexToRgb(`#${colorNode.srgbClr}`) is handed the text of
\* an object, which is no hexadecimal colour, and throws; a scheme colour is
\* a fixed grey; colorNode.sysClr.val is not the decoded attribute, so a
\* system colour is the grey of the default branch.
parseThemeColor(colorNode) ==
    IF colorNode = <<>> THEN ColorResult("none", <<>>)
    ELSE IF colorNode[1].srgbClr # <<>> THEN ColorResult("throws", <<>>)
    ELSE IF colorNode[1].schemeClr # <<>>
         THEN ColorResult("schemeClr", <<Rgb(Ratio(5, 10), Ratio(5, 10), Ratio(5, 10))>>)
    ELSE IF colorNode[1].sysClr # <<>>
         THEN ColorResult("sysClr", <<Rgb(Ratio(5, 10), Ratio(5, 10), Ratio(5, 10))>>)
    ELSE ColorResult("none", <<>>)

XMLParser_getColorCall ==
    /\ colOut = <<>>
    /\ colOut' = <<[op |-> "getColor", result |-> XMLParser_getColor(colNode)]>>
    /\ UNCHANGED colNode
    /\ UNCHANGED notCol

\* parseColorInfo is called on an element of the colour scheme.
ThemeParser_parseColorInfoCall ==
    /\ colOut = <<>>
    /\ colNode # <<>>
    /\ colOut' = <<[op |-> "parseColorInfo",
                    result |-> ThemeParser_parseColorInfo(colNode[1])]>>
    /\ UNCHANGED colNode
    /\ UNCHANGED notCol

ParseThemeColorCall ==
    /\ colOut = <<>>
    /\ colOut' = <<[op |-> "parseThemeColor", result |-> parseThemeColor(colNode)]>>
    /\ UNCHANGED colNode
    /\ UNCHANGED notCol

ColInit ==
    /\ colNode \in { <<>> } \cup { <<n>> : n \in ColorNodes }
    /\ colOut = <<>>

NextCol ==
    \/ XMLParser_getColorCall
    \/ ThemeParser_parseColorInfoCall
    \/ ParseThemeColorCall

InitCol == ColInit /\ DecodeUnused /\ ThemeUnused /\ CacheUnused /\ PctUnused /\ EmuUnused /\ MapUnused /\ IdsUnused /\ ValUnused /\ ScaleUnused /\ PassUnused /\ TwoUnused /\ WorkerUnused /\ MainUnused /\ DedupUnused

SpecCol == InitCol /\ [][NextCol]_vars

\* The first of srgbClr, schemeClr, sysClr a node carries, "none" if it
\* carries none of them.
FirstPresent(node) ==
    IF node.srgbClr # <<>> THEN "srgbClr"
    ELSE IF node.schemeClr # <<>> THEN "schemeClr"
    ELSE IF node.sysClr # <<>> THEN "sysClr"
    ELSE "none"

\* The result is the colour black.
IsBlack(res) ==
    /\ res.value # <<>>
    /\ IF "type" \in DOMAIN res.value[1]
       THEN res.value[1].type = "rgb" /\ res.value[1].value = <<0, 0, 0>>
       ELSE res.value[1] = Rgb(Num(0), Num(0), Num(0))

\* C19: a decoded colour node resolves by the first it carries of an RGB
\* literal, a scheme reference and a system colour name, and a node that
\* carries none of them resolves to black, not to an absent colour. The
\* nodes whose first child has no val attribute are left out.
C19_ColorPrecedence ==
    (colOut # <<>> /\ colNode # <<>>) =>
        LET node == colNode[1]
            first == FirstPresent(node)
        IN  /\ (first # "none" /\ HasVal(node[first])) => colOut[1].result.via = first
            /\ first = "none" => IsBlack(colOut[1].result)

\* C19, the part the code keeps: parseColorInfo follows the precedence and
\* returns black for a node that carries none of the three; getColor
\* follows the precedence when the node carries one of them with a val.
C19_ParseColorInfoPrecedence ==
    (colOut # <<>> /\ colNode # <<>>) =>
        LET node == colNode[1]
            first == FirstPresent(node)
        IN  /\ colOut[1].op = "parseColorInfo" =>
                  /\ first # "none" => colOut[1].result.via = first
                  /\ first = "none" => IsBlack(colOut[1].result)
            /\ (colOut[1].op = "getColor" /\ first # "none" /\ HasVal(node[first])) =>
                  colOut[1].result.via = first

(***************************************************************************)
(* Order and ownership of the slide elements (SpecMap)                     *)
(***************************************************************************)
\* The elements of a list come in the order of the nodes they came from.
InDocumentOrder(elements) ==
    \A k, l \in 1..Len(elements) :
        k < l => elements[k].src[Len(elements[k].src)] < elements[l].src[Len(elements[l].src)]

\* C21: the element list of a slide, and of each group, lists the mapped
\* elements in the document order of the children of the shape tree, also
\* when they are of different kinds.
C21_ElementsInDocumentOrder ==
    mapResult # <<>> =>
        /\ InDocumentOrder(mapResult[1].elements)
        /\ \A k \in 1..Len(mapResult[1].elements) :
              InDocumentOrder(mapResult[1].elements[k].children)

\* C21, the part the code keeps: the elements of one kind keep their
\* document order.
C21_OrderWithinKind ==
    mapResult # <<>> =>
        \A t \in { "shape", "text", "group", "image" } :
            InDocumentOrder(SelectSeq(mapResult[1].elements, LAMBDA e : e.type = t))

\* The paths of the children of the groups that do not fail, the children
\* not failing either.
OkChildPaths ==
    UNION { { <<i, j>> : j \in { k \in 1..Len(mapTree[i].children) :
                                    mapTree[i].children[k].ok } } :
            i \in { k \in 1..Len(mapTree) : mapTree[k].ok } }

\* C22: the children list of a Group element holds one mapped element for
\* every child of the source group that maps successfully, and no child
\* element is at the top level of the slide or in another group as well.
C22_GroupChildrenMapped ==
    (mapResult # <<>> /\ mapResult[1].via \in { "SlideParser", "mapSlideElements" }) =>
        LET elements == mapResult[1].elements
        IN  /\ \A c \in OkChildPaths :
                  \E k \in 1..Len(elements) :
                      /\ elements[k].type = "group"
                      /\ elements[k].src = <<c[1]>>
                      /\ \E j \in 1..Len(elements[k].children) :
                            elements[k].children[j].src = c
            /\ \A k \in 1..Len(elements) : Len(elements[k].src) = 1
            /\ \A k, l \in 1..Len(elements) :
                  \A i \in 1..Len(elements[k].children), j \in 1..Len(elements[l].children) :
                      elements[k].children[i].src = elements[l].children[j].src
                          => (k = l /\ i = j)

\* C22, the part the code keeps: no child element is shared or hoisted, and
\* SlideParser.parseGroup maps the children that sit below a p:spTree
\* element of the group.
C22_ChildrenOwnedByOneGroup ==
    mapResult # <<>> =>
        LET elements == mapResult[1].elements
        IN  /\ \A k \in 1..Len(elements) : Len(elements[k].src) = 1
            /\ \A k \in 1..Len(elements) :
                  \A j \in 1..Len(elements[k].children) :
                      /\ Len(elements[k].children[j].src) = 2
                      /\ elements[k].children[j].src[1] = elements[k].src[1]
            /\ mapResult[1].via = "SlideParser" =>
                  \A c \in OkChildPaths :
                      mapTree[c[1]].childrenAt = "spTree" => c \in Srcs(elements)

(***************************************************************************)
(* The scale factor: ElementMapper.mapShape / mapGroup / mapImage / mapText*)
(* (src/src/mapper/ElementMapper.ts:143-259) and                           *)
(* ImageMapper.mapImageElement (src/src/mapper/ImageMapper.ts:25-89). An   *)
(* element is mapped at context.scale and at scale 1.0; a mapped element   *)
(* is <<>> for null, and its size is <<>> for undefined.                   *)
(***************************************************************************)
MaxScale == 3

\* EMU values: zero, one pixel, a third more than a pixel.
EmuSamples == { 0, EMU_PER_PIXEL, 12700 }

\* The element data: offsets and extents in EMU, a crop rectangle or none.
ScaleData ==
    [x : EmuSamples, y : EmuSamples, width : EmuSamples, height : EmuSamples,
     crop : BOOLEAN]

\* context.scale: halves up to MaxScale.
Scales == { Flt(n, 2, 0) : n \in 1..(2 * MaxScale) }

\* convertEMUToPixels: (emu / 914400) * 96
convertEMUToPixels(emu) == FltMul(FltDiv(Flt(emu, 1, 0), Flt(914400, 1, 0)), Flt(96, 1, 0))

\* The object literal the mappers build: convertEMUToPixels(v || 0) * scale
\* for x, y, width and height.
ScaledBox(data, scale) ==
    [x |-> FltMul(convertEMUToPixels(data.x), scale),
     y |-> FltMul(convertEMUToPixels(data.y), scale),
     width |-> FltMul(convertEMUToPixels(data.width), scale),
     height |-> FltMul(convertEMUToPixels(data.height), scale)]

\* ElementMapper.mapShape: createShapeElement(position, size, shapeType,
\* overrides) receives the object literal as position, shapeType is
\* undefined, shapeType.charAt throws and the catch returns null.
mapShape(data, scale) == <<>>

\* ElementMapper.mapGroup: createGroupElement(position, size, children,
\* overrides) receives the object literal as position; size is undefined.
mapGroup(data, scale) == <<[type |-> "group", position |-> ScaledBox(data, scale), size |-> <<>>]>>

\* ElementMapper.mapImage: createImageElement likewise.
mapImage(data, scale) == <<[type |-> "image", position |-> ScaledBox(data, scale), size |-> <<>>]>>

\* ElementMapper.mapText: createTextElement likewise.
mapText(data, scale) == <<[type |-> "text", position |-> ScaledBox(data, scale), size |-> <<>>]>>

\* ImageMapper.mapImageElement: createImageElement receives the object
\* literal as position, so image.src is undefined; addImageMetadata calls
\* getImageFormat(image.src), src.startsWith throws and the catch returns
\* null, with or without a crop rectangle.
ImageMapper_mapImageElement(data, scale) == <<>>

One == Flt(1, 1, 0)

ScaleOut(op, atScale, atOne) == [op |-> op, atScale |-> atScale, atOne |-> atOne]

MapShapeCall ==
    /\ scOut = <<>>
    /\ scOut' = <<ScaleOut("mapShape", mapShape(scData, scScale), mapShape(scData, One))>>
    /\ UNCHANGED <<scData, scScale>>
    /\ UNCHANGED notScale

MapGroupCall ==
    /\ scOut = <<>>
    /\ scOut' = <<ScaleOut("mapGroup", mapGroup(scData, scScale), mapGroup(scData, One))>>
    /\ UNCHANGED <<scData, scScale>>
    /\ UNCHANGED notScale

MapImageCall ==
    /\ scOut = <<>>
    /\ scOut' = <<ScaleOut("mapImage", mapImage(scData, scScale), mapImage(scData, One))>>
    /\ UNCHANGED <<scData, scScale>>
    /\ UNCHANGED notScale

MapTextCall ==
    /\ scOut = <<>>
    /\ scOut' = <<ScaleOut("mapText", mapText(scData, scScale), mapText(scData, One))>>
    /\ UNCHANGED <<scData, scScale>>
    /\ UNCHANGED notScale

MapImageElementCall ==
    /\ scOut = <<>>
    /\ scOut' = <<ScaleOut("mapImageElement", ImageMapper_mapImageElement(scData, scScale),
                           ImageMapper_mapImageElement(scData, One))>>
    /\ UNCHANGED <<scData, scScale>>
    /\ UNCHANGED notScale

ScaleInit ==
    /\ scData \in ScaleData
    /\ scScale \in Scales
    /\ scOut = <<>>

NextScale ==
    \/ MapShapeCall
    \/ MapGroupCall
    \/ MapImageCall
    \/ MapTextCall
    \/ MapImageElementCall

InitScale == ScaleInit /\ DecodeUnused /\ ThemeUnused /\ CacheUnused /\ PctUnused /\ EmuUnused /\ MapUnused /\ IdsUnused /\ ValUnused /\ ColUnused /\ PassUnused /\ TwoUnused /\ WorkerUnused /\ MainUnused /\ DedupUnused

SpecScale == InitScale /\ [][NextScale]_vars

\* a = s * b, as exact values.
TimesOf(a, s, b) == a.num * (s.den * b.den) = (s.num * b.num) * a.den

\* a = emu * 96 / 914400, as exact values.
IsPixelsOf(a, emu) == a.num * 914400 = emu * 96 * a.den

\* C23: the position (x, y) and the size (width, height) of an element
\* mapped at scale s are s times those of the element mapped at scale 1.0,
\* which are emu * 96 / 914400. A data that maps to no element is left out.
C23_ScaleUniform ==
    (scOut # <<>> /\ scOut[1].atScale # <<>> /\ scOut[1].atOne # <<>>) =>
        LET a == scOut[1].atScale[1]
            b == scOut[1].atOne[1]
        IN  /\ TimesOf(a.position.x, scScale, b.position.x)
            /\ TimesOf(a.position.y, scScale, b.position.y)
            /\ IsPixelsOf(b.position.x, scData.x)
            /\ IsPixelsOf(b.position.y, scData.y)
            /\ a.size # <<>> /\ b.size # <<>>
            /\ TimesOf(a.size[1].width, scScale, b.size[1].width)
            /\ TimesOf(a.size[1].height, scScale, b.size[1].height)
            /\ IsPixelsOf(b.size[1].width, scData.width)
            /\ IsPixelsOf(b.size[1].height, scData.height)

\* C23, the part the code keeps: the four numbers the mappers compute, all
\* stored in the position of the element, scale uniformly.
C23_PositionObjectScaled ==
    (scOut # <<>> /\ scOut[1].atScale # <<>> /\ scOut[1].atOne # <<>>) =>
        LET a == scOut[1].atScale[1]
            b == scOut[1].atOne[1]
        IN  \A f \in { "x", "y", "width", "height" } :
                /\ TimesOf(a.position[f], scScale, b.position[f])
                /\ IsPixelsOf(b.position[f], scData[f])

\* What the code does for shapes and for ImageMapper: no element at any
\* scale.
C23_ShapesAndImageMapperNull ==
    (scOut # <<>> /\ scOut[1].op \in { "mapShape", "mapImageElement" }) =>
        scOut[1].atScale = <<>> /\ scOut[1].atOne = <<>>


(***************************************************************************)
(* The theme pass of ElementMapper                                         *)
(* (src/src/mapper/ElementMapper.ts:59-96, 293-367).                       *)
(*                                                                         *)
(* A mapped element is [type, hasText, color, children]: hasText tells a   *)
(* text element whose text field is truthy, color is the type of the color *)
(* of its text or fill ("SCHEME" or "RGB"), children are the elements of a *)
(* group.                                                                  *)
(***************************************************************************)
ColorTypes == { "SCHEME", "RGB" }

ThemedLeaves ==
    { [type |-> "text", hasText |-> t, color |-> c, children |-> <<>>] :
          t \in BOOLEAN, c \in ColorTypes }
    \cup { [type |-> "shape", hasText |-> FALSE, color |-> c, children |-> <<>>] :
               c \in ColorTypes }
    \cup { [type |-> "image", hasText |-> FALSE, color |-> "RGB", children |-> <<>>] }

ThemedGroups ==
    { [type |-> "group", hasText |-> FALSE, color |-> "RGB", children |-> c] :
          c \in SeqsUpTo(ThemedLeaves, MaxGroupChildren) }

ThemedElements == SeqsUpTo(ThemedLeaves \cup ThemedGroups, MaxElements)

\* applyThemeToElement: a text element with text and a shape ask the cache
\* for the theme with context.themeCache.getTheme(context.slideId); neither
\* ThemeCache class has a getTheme method, so the call throws before
\* applyTextTheme or applyShapeTheme touches the element. A group hands its
\* children to applyThemeToElement, an image is left alone. TRUE when the
\* call throws.
RECURSIVE applyThemeToElement(_)
applyThemeToElement(element) ==
    \/ element.type = "text" /\ element.hasText
    \/ element.type = "shape"
    \/ /\ element.type = "group"
       /\ \E k \in 1..Len(element.children) : applyThemeToElement(element.children[k])

\* applyThemes: the loop over the elements; the elements are changed in
\* place, threw tells that the loop ended in an exception.
applyThemes(elements) ==
    [elements |-> elements,
     threw |-> \E k \in 1..Len(elements) : applyThemeToElement(elements[k])]

\* The theme pass as mapSlide runs it: result.elements is assigned before
\* applyThemes, an exception of the pass goes to result.errors.
ElementMapper_applyThemes ==
    /\ tpResult = <<>>
    /\ LET pass == applyThemes(tpElements)
       IN  tpResult' = <<[elements |-> pass.elements,
                          errors |-> IF pass.threw THEN <<"mapSlide">> ELSE <<>>]>>
    /\ UNCHANGED tpElements
    /\ UNCHANGED notPass

PassInit ==
    /\ tpElements \in ThemedElements
    /\ tpResult = <<>>

NextPass == ElementMapper_applyThemes

InitPass == PassInit /\ DecodeUnused /\ ThemeUnused /\ CacheUnused /\ PctUnused /\ EmuUnused /\ MapUnused /\ IdsUnused /\ ValUnused /\ ColUnused /\ ScaleUnused /\ TwoUnused /\ WorkerUnused /\ MainUnused /\ DedupUnused

SpecPass == InitPass /\ [][NextPass]_vars

\* The elements of a list at every nesting depth.
ThemedAll(elements) ==
    { elements[k] : k \in 1..Len(elements) }
    \cup UNION { { elements[k].children[j] : j \in 1..Len(elements[k].children) } :
                 k \in 1..Len(elements) }

\* Whether an element still carries a scheme-reference color.
CarriesScheme(element) ==
    /\ element.type \in { "text", "shape" }
    /\ element.color = "SCHEME"

C24_ThemePassKeepsElements ==
    tpResult # <<>> =>
        /\ tpResult[1].elements = tpElements
        /\ (tpResult[1].errors # <<>>) <=>
               \E e \in ThemedAll(tpElements) :
                   e.type = "shape" \/ (e.type = "text" /\ e.hasText)

\* C24, for mapSlide itself: the slide is never parsed, the result holds no
\* element and one error, whatever the shape tree.
C24_MapSlideReturnsNoElement ==
    (mapResult # <<>> /\ mapResult[1].via = "mapSlide") =>
        /\ mapResult[1].elements = <<>>
        /\ mapResult[1].errors # <<>>


(***************************************************************************)
(* Repeated set on the caches (SpecCache)                                  *)
(***************************************************************************)
\* The cached ids of a Map, and what is stored under each.
CachedIds(cache) == { cache[i].id : i \in 1..Len(cache) }
CachedValues(cache) == { <<cache[i].id, cache[i].value>> : i \in 1..Len(cache) }

\* A step that is the second of two set calls in a row with the same
\* arguments: the same id, the same theme data and, for the size-bounded
\* class, the same entry size.
SecondSameSet ==
    /\ lastOp.op = "set"
    /\ lastOp'.op = "set"
    /\ lastOp'.id = lastOp.id
    /\ stored'[lastOp.id] = stored[lastOp.id]
    /\ cacheClass = "size" =>
          MapGet(sbCache', lastOp.id)[1].size = MapGet(sbCache, lastOp.id)[1].size

\* C25: set is idempotent: a second set with the same arguments leaves the
\* cache with the same cached ids and the same stored values as the first,
\* and evicts no other entry, also when the cache is at its maximum.
C25_SetIdempotent ==
    [][ SecondSameSet =>
          /\ CachedIds(Cache') = CachedIds(Cache)
          /\ CachedValues(Cache') = CachedValues(Cache)
      ]_vars

\* Whether a set of the entry cached under the id finds the cache at a limit.
AtLimit(id) ==
    IF cacheClass = "count"
    THEN Len(cbCache) >= cbMax
    ELSE \/ SumSizes(sbCache) + MapGet(sbCache, id)[1].size > sbMaxSize
         \/ Len(sbCache) >= sbMaxEntries

\* C25, the part that holds: the second set keeps the entry of its id with
\* the same stored value, and it keeps every other entry when it finds the
\* cache below its limits.
C25_SecondSetBelowLimitKeepsAll ==
    [][ SecondSameSet =>
          /\ <<lastOp.id, stored[lastOp.id][1]>> \in CachedValues(Cache')
          /\ ~AtLimit(lastOp.id) =>
                CachedValues(Cache') = CachedValues(Cache)
      ]_vars


(***************************************************************************)
(* Two parse invocations on one PPTXParser                                 *)
(* (src/src/parser/PPTXParser.ts:17-26, 33-119, 157-301, 417-420).         *)
(*                                                                         *)
(* The instance holds this.zip and this.state; parse runs to its next      *)
(* await and another invocation may run in between. A package is           *)
(* [slides, masters, themes, media], each a list of flags, FALSE for a     *)
(* part whose parsing throws. A JSZip object and a warnings array are      *)
(* named by the invocation that made them (0 for the array of the          *)
(* constructor). A part is <<pkg, kind, idx>>.                             *)
(***************************************************************************)
MaxPackageParts == 2

Invocations == { 1, 2 }
Kinds == <<"slides", "masters", "themes", "media">>
PartLists == { <<>>, <<TRUE>>, <<FALSE>> }

PartCount(pkg) == Len(pkg.slides) + Len(pkg.masters) + Len(pkg.themes) + Len(pkg.media)

Packages ==
    { pkg \in [slides : PartLists, masters : PartLists, themes : PartLists,
               media : PartLists] : PartCount(pkg) <= MaxPackageParts }

Part(pkg, kind, idx, ok) == [pkg |-> pkg, kind |-> kind, idx |-> idx, ok |-> ok]

\* getSlideFiles / getMasterSlideFiles / getThemeFiles / getMediaFiles: the
\* files of a kind in this.zip; a JSZip object has no files before its
\* loadAsync completes.
getFiles(zip, loaded, kind) ==
    IF zip = 0 \/ ~loaded[zip] THEN <<>>
    ELSE [i \in 1..Len(twPkg[zip][kind]) |-> Part(zip, kind, i, twPkg[zip][kind][i])]

\* The first kind, from a position of Kinds on, that has files in this.zip;
\* Len(Kinds) + 1 when none has: parseSlides, parseMasterSlides, parseThemes
\* and parseMediaFiles run on without an await until one awaits a file.
RECURSIVE NextStage(_, _, _)
NextStage(from, zip, loaded) ==
    IF from > Len(Kinds) THEN from
    ELSE IF getFiles(zip, loaded, Kinds[from]) # <<>> THEN from
    ELSE NextStage(from + 1, zip, loaded)

Other(k) == 3 - k

InFlight(k) == twPc[k] \notin { "idle", "done" }

\* The return of parse: errors and warnings are this.state.errors and
\* this.state.warnings, the arrays the state refers to at that moment.
ParseResult(success, out, warnRef) ==
    [success |-> success, parts |-> out.parts, zips |-> out.zips, warnRef |-> warnRef]

\* parse up to the await of loadAsync: updateState puts fresh errors and
\* warnings arrays into this.state, loadZipArchive puts a fresh JSZip
\* object into this.zip.
Interleaved_parseStart(k) ==
    /\ twPc[k] = "idle"
    /\ twPc' = [twPc EXCEPT ![k] = "load"]
    /\ twZip' = k
    /\ twWarnRef' = k
    /\ twArrays' = [twArrays EXCEPT ![k] = <<>>]
    /\ twOverlap' = (twOverlap \/ InFlight(Other(k)))
    /\ UNCHANGED <<twPkg, twLoaded, twStage, twFiles, twOut, twResult>>
    /\ UNCHANGED notTwo

\* loadAsync of the invocation's archive completes; parsePresentation looks
\* presentation.xml up in this.zip and awaits its text, or throws when the
\* file is not there, and parse returns the failure.
Interleaved_loadZipArchive(k) ==
    /\ twPc[k] = "load"
    /\ twLoaded' = [twLoaded EXCEPT ![k] = TRUE]
    /\ twOut' = [twOut EXCEPT ![k].zips = @ \cup { twZip }]
    /\ IF twLoaded'[twZip]
       THEN /\ twPc' = [twPc EXCEPT ![k] = "presentation"]
            /\ UNCHANGED twResult
       ELSE /\ twPc' = [twPc EXCEPT ![k] = "done"]
            /\ twResult' = [twResult EXCEPT ![k] =
                              <<ParseResult(FALSE, twOut'[k], twWarnRef)>>]
    /\ UNCHANGED <<twPkg, twZip, twWarnRef, twArrays, twStage, twFiles, twOverlap>>
    /\ UNCHANGED notTwo

\* The text of presentation.xml arrives; parseSlides and the methods after
\* it take their files from this.zip until one has a file to await, and
\* parse returns when none has.
Interleaved_parsePresentation(k) ==
    /\ twPc[k] = "presentation"
    /\ LET stage == NextStage(1, twZip, twLoaded)
       IN  /\ twStage' = [twStage EXCEPT ![k] = stage]
           /\ twOut' = [twOut EXCEPT ![k].zips = @ \cup { twZip }]
           /\ IF stage > Len(Kinds)
              THEN /\ twPc' = [twPc EXCEPT ![k] = "done"]
                   /\ twFiles' = [twFiles EXCEPT ![k] = <<>>]
                   /\ twResult' = [twResult EXCEPT ![k] =
                                     <<ParseResult(TRUE, twOut'[k], twWarnRef)>>]
              ELSE /\ twPc' = [twPc EXCEPT ![k] = "parts"]
                   /\ twFiles' = [twFiles EXCEPT ![k] =
                                     getFiles(twZip, twLoaded, Kinds[stage])]
                   /\ UNCHANGED twResult
    /\ UNCHANGED <<twPkg, twZip, twLoaded, twWarnRef, twArrays, twOverlap>>
    /\ UNCHANGED notTwo

\* The text of a part arrives (parseSlide, parseMasterSlide, parseTheme,
\* parseMediaFile): the part joins the list of its kind, or its failure is
\* pushed to this.state.warnings; after the last file of the kind the
\* methods that follow take their files from this.zip, and parse returns
\* after parseMediaFiles.
Interleaved_parsePart(k) ==
    /\ twPc[k] = "parts"
    /\ LET file == Head(twFiles[k])
           rest == Tail(twFiles[k])
           stage == IF rest # <<>> THEN twStage[k]
                    ELSE NextStage(twStage[k] + 1, twZip, twLoaded)
           out == [parts |-> IF file.ok
                             THEN Append(twOut[k].parts, <<file.pkg, file.kind, file.idx>>)
                             ELSE twOut[k].parts,
                   zips |-> IF rest # <<>> THEN twOut[k].zips
                            ELSE twOut[k].zips \cup { twZip }]
       IN  /\ twArrays' = IF file.ok THEN twArrays
                          ELSE [twArrays EXCEPT ![twWarnRef] =
                                   Append(@, <<file.pkg, file.kind, file.idx>>)]
           /\ twOut' = [twOut EXCEPT ![k] = out]
           /\ twStage' = [twStage EXCEPT ![k] = stage]
           /\ IF stage > Len(Kinds)
              THEN /\ twPc' = [twPc EXCEPT ![k] = "done"]
                   /\ twFiles' = [twFiles EXCEPT ![k] = <<>>]
                   /\ twResult' = [twResult EXCEPT ![k] =
                                     <<ParseResult(TRUE, out, twWarnRef)>>]
              ELSE /\ twPc' = [twPc EXCEPT ![k] = "parts"]
                   /\ twFiles' = [twFiles EXCEPT ![k] =
                                     IF rest # <<>> THEN rest
                                     ELSE getFiles(twZip, twLoaded, Kinds[stage])]
                   /\ UNCHANGED twResult
    /\ UNCHANGED <<twPkg, twZip, twLoaded, twWarnRef, twOverlap>>
    /\ UNCHANGED notTwo

TwoInit ==
    /\ twPkg \in [Invocations -> Packages]
    /\ twPc = [k \in Invocations |-> "idle"]
    /\ twZip = 0
    /\ twLoaded = [k \in Invocations |-> FALSE]
    /\ twWarnRef = 0
    /\ twArrays = [a \in { 0 } \cup Invocations |-> <<>>]
    /\ twStage = [k \in Invocations |-> 0]
    /\ twFiles = [k \in Invocations |-> <<>>]
    /\ twOut = [k \in Invocations |-> [parts |-> <<>>, zips |-> {}]]
    /\ twResult = [k \in Invocations |-> <<>>]
    /\ twOverlap = FALSE

NextTwo ==
    \/ \E k \in Invocations : Interleaved_parseStart(k)
    \/ \E k \in Invocations : Interleaved_loadZipArchive(k)
    \/ \E k \in Invocations : Interleaved_parsePresentation(k)
    \/ \E k \in Invocations : Interleaved_parsePart(k)

InitTwo == TwoInit /\ DecodeUnused /\ ThemeUnused /\ CacheUnused /\ PctUnused /\ EmuUnused /\ MapUnused /\ IdsUnused /\ ValUnused /\ ColUnused /\ ScaleUnused /\ PassUnused /\ WorkerUnused /\ MainUnused /\ DedupUnused

SpecTwo == InitTwo /\ [][NextTwo]_vars

\* The parts of a package that parse, and those that fail, as <<pkg, kind, idx>>.
PartsOf(k, ok) ==
    UNION { { <<k, Kinds[s], i>> :
                i \in { j \in 1..Len(twPkg[k][Kinds[s]]) : twPkg[k][Kinds[s]][j] = ok } } :
            s \in 1..Len(Kinds) }

\* What a result holds of its own package and nothing else: the archive it
\* read, its parts, and the warnings its caller finds in it.
OwnResult(k) ==
    LET res == twResult[k][1]
    IN  /\ res.zips \subseteq { k }
        /\ res.success
        /\ Range(res.parts) = PartsOf(k, TRUE)
        /\ Range(twArrays[res.warnRef]) = PartsOf(k, FALSE)

\* C26: when two parse invocations on one instance interleave at their
\* awaits, each returns only parts and warnings of its own input package:
\* no part is read from the archive of the other, and no warning of one
\* appears in, or disappears from, the result of the other.
C26_InterleavedParsesIsolated ==
    \A k \in Invocations : twResult[k] # <<>> => OwnResult(k)

\* C26, the part that holds: an invocation that starts after the other has
\* returned, and one that is not overtaken, returns its own parts and
\* warnings.
C26_SequentialParsesIsolated ==
    ~twOverlap => \A k \in Invocations : twResult[k] # <<>> => OwnResult(k)


(***************************************************************************)
(* The parser worker (src/src/workers/parser.worker.ts:33-124).            *)
(*                                                                         *)
(* The worker handles one message at a time up to the next await. Every    *)
(* parse message has an id of its own; a cancel message carries the id of  *)
(* the parse it is about. A posted message is [id, type]. The payload of a *)
(* parse message is "ok", "badArchive" (parse returns a failure result) or *)
(* "missing" (no payload: the destructuring in handleParse throws).        *)
(***************************************************************************)
MaxParseSteps == 2
MaxCancels == 2

MessageIds == { "m1", "m2" }
ParsePayloads == { "ok", "badArchive", "missing" }

Response(id, type) == [id |-> id, type |-> type]

\* sendProgress, sendComplete, sendError: self.postMessage of a response.
sendProgress(posted, id) == Append(posted, Response(id, "progress"))
sendComplete(posted, id) == Append(posted, Response(id, "complete"))
sendError(posted, id) == Append(posted, Response(id, "error"))

\* onmessage with a parse message: handleParse makes the parser, whose
\* first updateState calls report progress before parse awaits the
\* archive. Without a payload the destructuring throws and the catch of
\* onmessage posts the error.
onmessage_parse(id, payload) ==
    /\ wkPc[id] = "new"
    /\ IF payload = "missing"
       THEN /\ wkPosted' = sendError(wkPosted, id)
            /\ wkPc' = [wkPc EXCEPT ![id] = "done"]
            /\ UNCHANGED wkParser
       ELSE /\ wkPosted' = sendProgress(wkPosted, id)
            /\ wkPc' = [wkPc EXCEPT ![id] = IF payload = "ok" THEN "parsing" ELSE "failing"]
            /\ wkParser' = <<id>>
    /\ UNCHANGED <<wkSteps, wkCancels>>
    /\ UNCHANGED notWorker

\* parse resumes after an await and reports the next step through the
\* callback of its own parser.
onmessage_parseProgress(id) ==
    /\ wkPc[id] = "parsing"
    /\ wkSteps[id] < MaxParseSteps
    /\ wkSteps' = [wkSteps EXCEPT ![id] = @ + 1]
    /\ wkPosted' = sendProgress(wkPosted, id)
    /\ UNCHANGED <<wkPc, wkParser, wkCancels>>
    /\ UNCHANGED notWorker

\* parse returns, with a result or a failure: its last updateState reports
\* progress, handleParse posts the result and sets the global parser to null.
onmessage_parseComplete(id) ==
    /\ wkPc[id] \in { "parsing", "failing" }
    /\ wkPosted' = sendComplete(sendProgress(wkPosted, id), id)
    /\ wkPc' = [wkPc EXCEPT ![id] = "done"]
    /\ wkParser' = <<>>
    /\ UNCHANGED <<wkSteps, wkCancels>>
    /\ UNCHANGED notWorker

\* onmessage with a cancel message: handleCancel posts a progress message
\* with the id of the message and leaves the parser alone.
onmessage_cancel(id) ==
    /\ wkCancels < MaxCancels
    /\ wkCancels' = wkCancels + 1
    /\ wkPosted' = sendProgress(wkPosted, id)
    /\ UNCHANGED <<wkPc, wkSteps, wkParser>>
    /\ UNCHANGED notWorker

WorkerInit ==
    /\ wkPc = [id \in MessageIds |-> "new"]
    /\ wkSteps = [id \in MessageIds |-> 0]
    /\ wkParser = <<>>
    /\ wkCancels = 0
    /\ wkPosted = <<>>

NextWorker ==
    \/ \E id \in MessageIds, payload \in ParsePayloads : onmessage_parse(id, payload)
    \/ \E id \in MessageIds : onmessage_parseProgress(id)
    \/ \E id \in MessageIds : onmessage_parseComplete(id)
    \/ \E id \in MessageIds : onmessage_cancel(id)

InitWorker == WorkerInit /\ DecodeUnused /\ ThemeUnused /\ CacheUnused /\ PctUnused /\ EmuUnused /\ MapUnused /\ IdsUnused /\ ValUnused /\ ColUnused /\ ScaleUnused /\ PassUnused /\ TwoUnused /\ MainUnused /\ DedupUnused

SpecWorker == InitWorker /\ [][NextWorker]_vars

\* The promises of a parse in flight settle: parse runs to its return.
SpecWorkerFair ==
    SpecWorker /\ \A id \in MessageIds : WF_vars(onmessage_parseComplete(id))

\* The positions of the terminal messages of an id among the posted ones.
Terminals(id) ==
    { i \in 1..Len(wkPosted) :
        wkPosted[i].id = id /\ wkPosted[i].type \in { "complete", "error" } }

\* C27: for every parse message the worker posts exactly one terminal
\* message (complete or error) with its id, and no progress message with
\* that id after the terminal one, whatever cancel and parse messages
\* arrive meanwhile.
C27_OneTerminalThenSilence ==
    \A id \in MessageIds :
        /\ Cardinality(Terminals(id)) <= 1
        /\ wkPc[id] = "done" => Cardinality(Terminals(id)) = 1
        /\ \A t \in Terminals(id) :
              \A i \in (t + 1)..Len(wkPosted) :
                  ~(wkPosted[i].id = id /\ wkPosted[i].type = "progress")

\* C27, the part that holds: a parse message never gets a second terminal
\* message, gets one by the time its handler is done, none before, and the
\* parse of another message posts nothing under its id.
C27_AtMostOneTerminal ==
    \A id \in MessageIds :
        /\ Cardinality(Terminals(id)) <= 1
        /\ (wkPc[id] = "done") <=> (Cardinality(Terminals(id)) = 1)

\* C27, the part that holds: every parse message received gets its
\* terminal message in the end.
C27_TerminalEventually ==
    \A id \in MessageIds : (wkPc[id] # "new") ~> (Terminals(id) # {})


(***************************************************************************)
(* The plugin main process (src/src/models/index.ts:137-311).              *)
(*                                                                         *)
(* figma.ui.onmessage handles one message up to its next await, which is   *)
(* figma.loadFontAsync in the loop of createFramesFromPPTX. A payload is   *)
(* [kind, slides, failAt]: kind "missing" for no payload, "incomplete" for *)
(* one without pptxData or settings, "noSlides" for pptxData without       *)
(* slides, "ok" otherwise; failAt is the number of the slide at which a    *)
(* call throws, 0 for none. A posted message is [msg, type, num, den]:     *)
(* msg is the render-pptx message whose handler posted it (0 for another   *)
(* message), num / den the progress value.                                 *)
(***************************************************************************)
MaxRenderSlides == 2
MaxOthers == 1

RenderMsgs == { 1, 2 }

RenderPayloads ==
    { [kind |-> k, slides |-> 0, failAt |-> 0] : k \in { "missing", "incomplete", "noSlides" } }
    \cup { [kind |-> "ok", slides |-> n, failAt |-> f] :
               n \in 0..MaxRenderSlides, f \in 0..MaxRenderSlides }

\* sendMessage: figma.ui.postMessage
sendMessage(posted, msg, type) ==
    Append(posted, [msg |-> msg, type |-> type, num |-> 0, den |-> 1])

\* The import-progress message of the loop: 80 + (i / slides.length) * 20.
sendImportProgress(posted, msg, i, n) ==
    Append(posted, [msg |-> msg, type |-> "import-progress",
                    num |-> 80 * n + 20 * i, den |-> n])

\* The loop of createFramesFromPPTX from slide i (counted from 0) up to its
\* await, then the rest of handleRenderPPTX when the loop is over: what is
\* posted, and whether the handler is done.
createFramesFromPPTX(posted, msg, payload, i) ==
    IF i >= payload.slides
    THEN [posted |-> sendMessage(posted, msg, "import-complete"), pc |-> "done"]
    ELSE IF payload.failAt = i + 1
    THEN [posted |-> sendMessage(sendImportProgress(posted, msg, i, payload.slides),
                                 msg, "import-error"),
          pc |-> "done"]
    ELSE [posted |-> sendImportProgress(posted, msg, i, payload.slides), pc |-> "frames"]

\* onmessage with a render-pptx message: handleRenderPPTX up to the first
\* await of createFramesFromPPTX.
handleRenderPPTX(m) ==
    /\ ~mnClosed
    /\ mnPc[m] = "new"
    /\ LET payload == mnPayload[m]
           next == IF payload.kind \in { "missing", "incomplete" }
                   THEN [posted |-> sendMessage(mnPosted, m, "import-error"), pc |-> "done"]
                   ELSE IF payload.kind = "noSlides"
                   THEN [posted |-> sendMessage(sendMessage(mnPosted, m, "import-started"),
                                                m, "import-error"),
                         pc |-> "done"]
                   ELSE createFramesFromPPTX(sendMessage(mnPosted, m, "import-started"),
                                             m, payload, 0)
       IN  /\ mnPosted' = next.posted
           /\ mnPc' = [mnPc EXCEPT ![m] = next.pc]
    /\ UNCHANGED <<mnPayload, mnIndex, mnOthers, mnClosed>>
    /\ UNCHANGED notMain

\* figma.loadFontAsync settles: the frame of the slide is finished and the
\* loop goes on with the next slide.
createFramesFromPPTX_resume(m) ==
    /\ ~mnClosed
    /\ mnPc[m] = "frames"
    /\ LET next == createFramesFromPPTX(mnPosted, m, mnPayload[m], mnIndex[m] + 1)
       IN  /\ mnPosted' = next.posted
           /\ mnPc' = [mnPc EXCEPT ![m] = next.pc]
    /\ mnIndex' = [mnIndex EXCEPT ![m] = @ + 1]
    /\ UNCHANGED <<mnPayload, mnOthers, mnClosed>>
    /\ UNCHANGED notMain

\* onmessage with a cancel message: figma.closePlugin ends the plugin and
\* its UI; no handler runs on.
onmessage_closePlugin ==
    /\ ~mnClosed
    /\ mnClosed' = TRUE
    /\ UNCHANGED <<mnPayload, mnPc, mnIndex, mnOthers, mnPosted>>
    /\ UNCHANGED notMain

\* onmessage with a malformed message or one of an unknown type: sendError.
onmessage_default ==
    /\ ~mnClosed
    /\ mnOthers < MaxOthers
    /\ mnOthers' = mnOthers + 1
    /\ mnPosted' = sendMessage(mnPosted, 0, "import-error")
    /\ UNCHANGED <<mnPayload, mnPc, mnIndex, mnClosed>>
    /\ UNCHANGED notMain

MainInit ==
    /\ mnPayload \in [RenderMsgs -> RenderPayloads]
    /\ mnPc = [m \in RenderMsgs |-> "new"]
    /\ mnIndex = [m \in RenderMsgs |-> 0]
    /\ mnOthers = 0
    /\ mnClosed = FALSE
    /\ mnPosted = <<>>

NextMain ==
    \/ \E m \in RenderMsgs : handleRenderPPTX(m)
    \/ \E m \in RenderMsgs : createFramesFromPPTX_resume(m)
    \/ onmessage_closePlugin
    \/ onmessage_default

InitMain == MainInit /\ DecodeUnused /\ ThemeUnused /\ CacheUnused /\ PctUnused /\ EmuUnused /\ MapUnused /\ IdsUnused /\ ValUnused /\ ColUnused /\ ScaleUnused /\ PassUnused /\ TwoUnused /\ WorkerUnused /\ DedupUnused

SpecMain == InitMain /\ [][NextMain]_vars

\* figma.loadFontAsync settles while the plugin runs.
SpecMainFair ==
    SpecMain /\ \A m \in RenderMsgs : WF_vars(createFramesFromPPTX_resume(m))

\* The positions of the messages of a type that the handler of m posted.
PostedOf(m, types) ==
    { i \in 1..Len(mnPosted) : mnPosted[i].msg = m /\ mnPosted[i].type \in types }

RenderTerminals(m) == PostedOf(m, { "import-complete", "import-error" })

\* The order of the messages of one render-pptx message: at most one
\* terminal message, import-complete after import-started, every
\* import-progress after import-started and before the terminal message,
\* progress values non-decreasing and within 80..100.
RenderOrder(m) ==
    /\ Cardinality(RenderTerminals(m)) <= 1
    /\ \A c \in PostedOf(m, { "import-complete" }) :
          \E s \in PostedOf(m, { "import-started" }) : s < c
    /\ \A p \in PostedOf(m, { "import-progress" }) :
          /\ \E s \in PostedOf(m, { "import-started" }) : s < p
          /\ \A t \in RenderTerminals(m) : p < t
          /\ 80 * mnPosted[p].den <= mnPosted[p].num
          /\ mnPosted[p].num <= 100 * mnPosted[p].den
          /\ \A q \in PostedOf(m, { "import-progress" }) :
                q < p => mnPosted[q].num * mnPosted[p].den <= mnPosted[p].num * mnPosted[q].den

\* C28: for every render-pptx message handled exactly one terminal message
\* is posted, import-complete or import-error and never both;
\* import-complete comes after import-started, every import-progress lies
\* between import-started and the terminal message, and the progress
\* values are non-decreasing within 80..100.
C28_OneTerminalInOrder ==
    /\ [](\A m \in RenderMsgs : RenderOrder(m))
    /\ \A m \in RenderMsgs : (mnPc[m] # "new") ~> (RenderTerminals(m) # {})

\* C28, the part that holds: the order of the messages of every
\* render-pptx message, and exactly one terminal message once its handler
\* is done.
C28_RenderOrderKept ==
    \A m \in RenderMsgs :
        /\ RenderOrder(m)
        /\ (mnPc[m] = "done") <=> (Cardinality(RenderTerminals(m)) = 1)

\* C28, the part that holds: every render-pptx message handled gets its
\* terminal message unless a cancel message closes the plugin first.
C28_TerminalUnlessClosed ==
    \A m \in RenderMsgs : (mnPc[m] # "new") ~> (RenderTerminals(m) # {} \/ mnClosed)


(***************************************************************************)
(* The dedup cache of ImageMapper                                          *)
(* (src/src/mapper/ImageMapper.ts:20-143, 222-230, 278-290).               *)
(*                                                                         *)
(* The content of an image is a string, here a sequence of character       *)
(* codes. Image data is [via, content]: via "src" for a src of a supported *)
(* format, "unsupported" for a src of another format, "relationshipId"     *)
(* for a relationship. The cache is static: it lives as long as the        *)
(* process, through every decode.                                          *)
(***************************************************************************)
\* The length of the prefix generateImageHash reads (1000 in the code),
\* scaled down with the contents under test.
HashPrefixLen == 2
MaxContentLen == HashPrefixLen + 1

ContentChars == { 65, 66 }
Contents == UNION { [1..n -> ContentChars] : n \in 1..MaxContentLen }

ImageData ==
    { [via |-> v, content |-> c] :
          v \in { "src", "unsupported", "relationshipId" }, c \in Contents }

\* extractImageBytes: <<>> for null.
extractImageBytes(imageData) ==
    IF imageData.via = "src" THEN <<imageData.content>> ELSE <<>>

\* imageBytes.substring(0, 1000)
substring(str, n) == SubSeq(str, 1, IF Len(str) < n THEN Len(str) ELSE n)

\* generateImageHash: hash = ((hash << 5) - hash) + char over the prefix;
\* "hash & hash" leaves the values of these contents, all below 2^31, as
\* they are, and toString(36) is one-to-one.
RECURSIVE HashOf(_, _)
HashOf(str, hash) ==
    IF str = <<>> THEN hash
    ELSE HashOf(Tail(str), (hash * 32 - hash) + Head(str))

generateImageHash(imageBytes) == HashOf(substring(imageBytes, HashPrefixLen), 0)

\* imageCache.has / get / set
imageCache_has(cache, hash) == \E e \in cache : e[1] = hash
imageCache_get(cache, hash) == (CHOOSE e \in cache : e[1] = hash)[2]
imageCache_set(cache, hash, bytes) ==
    { e \in cache : e[1] # hash } \cup { <<hash, bytes>> }

\* The src mapImageElement hands to createImageElement.
imageSrcOf(cache, imageBytes, deduplicate) ==
    IF deduplicate /\ imageCache_has(cache, generateImageHash(imageBytes))
    THEN imageCache_get(cache, generateImageHash(imageBytes))
    ELSE imageBytes

\* mapImageElement: null without extracted data. With data the cache is
\* read or written, the element is made from one object literal, so
\* image.src is undefined, addImageMetadata calls getImageFormat(image.src),
\* src.startsWith throws and the catch returns null.
ImageMapper_mapImageElementCall(imageData, deduplicate) ==
    /\ LET extracted == extractImageBytes(imageData)
       IN  IF extracted = <<>>
           THEN /\ imOut' = <<[extracted |-> <<>>, imageSrc |-> <<>>, ret |-> <<>>,
                               deduplicate |-> deduplicate]>>
                /\ UNCHANGED imCache
           ELSE LET imageBytes == extracted[1]
                    hash == generateImageHash(imageBytes)
                IN  /\ imCache' = IF deduplicate /\ ~imageCache_has(imCache, hash)
                                  THEN imageCache_set(imCache, hash, imageBytes)
                                  ELSE imCache
                    /\ imOut' = <<[extracted |-> extracted,
                                   imageSrc |-> <<imageSrcOf(imCache, imageBytes,
                                                             deduplicate)>>,
                                   ret |-> <<>>,
                                   deduplicate |-> deduplicate]>>
    /\ UNCHANGED notDedup

\* clearCache
ImageMapper_clearCache ==
    /\ imCache' = {}
    /\ UNCHANGED imOut
    /\ UNCHANGED notDedup

DedupInit ==
    /\ imCache = {}
    /\ imOut = <<>>

NextDedup ==
    \/ \E imageData \in ImageData, deduplicate \in BOOLEAN :
          ImageMapper_mapImageElementCall(imageData, deduplicate)
    \/ ImageMapper_clearCache

InitDedup == DedupInit /\ DecodeUnused /\ ThemeUnused /\ CacheUnused /\ PctUnused /\ EmuUnused /\ MapUnused /\ IdsUnused /\ ValUnused /\ ColUnused /\ ScaleUnused /\ PassUnused /\ TwoUnused /\ WorkerUnused /\ MainUnused

SpecDedup == InitDedup /\ [][NextDedup]_vars

C29_DedupAgreesOnPrefix ==
    (imOut # <<>> /\ imOut[1].extracted # <<>>) =>
        /\ substring(imOut[1].imageSrc[1], HashPrefixLen)
              = substring(imOut[1].extracted[1], HashPrefixLen)
        /\ ~imOut[1].deduplicate => imOut[1].imageSrc = imOut[1].extracted

\* C29, what is returned: mapImageElement returns null for every image.
C29_MapImageElementReturnsNull ==
    imOut # <<>> => imOut[1].ret = <<>>


(***************************************************************************)
(* The numbers of the slides (SpecDecode)                                  *)
(***************************************************************************)
\* The position of the file of a name in the list the loop walked.
PositionOf(files, name) == CHOOSE i \in 1..Len(files) : files[i].name = name

StrictlyIncreasing(ss) ==
    \A i, j \in 1..Len(ss) : i < j => ss[i].number < ss[j].number

\* The numeric suffixes of the slide files the decoder failed on.
FailedSuffixes ==
    { ParseInt(slideFiles[i].name) :
        i \in { k \in 1..Len(slideFiles) :
                  IF impl = "PPTXParser" THEN ~SlideParser_parse_ok(slideFiles[k].kind)
                  ELSE ~CoreParser_parseSlide_ok(slideFiles[k].kind) } }

SlideWarningNumbers(ws) ==
    { ws[k].number : k \in { i \in 1..Len(ws) : ws[i].kind = "slide" } }

\* C30: in every successful decode the slides carry strictly increasing
\* 1-based numbers, the number of each slide is the numeric suffix of its
\* file (slideK.xml yields K), and the warning of a slide part that failed
\* names that number, for every ZIP enumeration order and with gaps in the
\* file numbers.
C30_SlideNumberIsFileSuffix ==
    (Done /\ Res.success) =>
        /\ StrictlyIncreasing(Res.data.slides)
        /\ \A i \in 1..Len(Res.data.slides) :
              /\ Res.data.slides[i].number >= 1
              /\ Res.data.slides[i].number = ParseInt(Res.data.slides[i].source)
        /\ impl = "PPTXParser" => SlideWarningNumbers(Res.warnings) = FailedSuffixes

\* C30, the part that holds: the numbers are strictly increasing and
\* 1-based, the number of a slide is the position of its file in the list
\* the loop walked, and a slide warning of PPTXParser names the position of
\* a file that failed.
C30_SlideNumberIsLoopPosition ==
    (Done /\ Res.success) =>
        /\ StrictlyIncreasing(Res.data.slides)
        /\ \A i \in 1..Len(Res.data.slides) :
              /\ Res.data.slides[i].number >= 1
              /\ Res.data.slides[i].number
                    = PositionOf(slideList, Res.data.slides[i].source)
        /\ impl = "PPTXParser" => SlideWarningNumbers(Res.warnings) = FailingSlides

====
